---- MODULE Spec2Model ----
(***************************************************************************)
(* Model of the Tidal integration for Home Assistant:                      *)
(*   custom_components/tidal/api.py          TidalAPI (token handling and  *)
(*                                           the request path)             *)
(*   custom_components/tidal/coordinator.py  TidalDataUpdateCoordinator    *)
(*   custom_components/tidal/config_flow.py  TidalFlowHandler (PKCE)       *)
(*   custom_components/tidal/application_credentials.py                    *)
(*                                           TidalOAuth2Implementation     *)
(*   custom_components/tidal/services.py     the mutating service handlers *)
(*   custom_components/tidal/__init__.py     async_setup_entry             *)
(*   custom_components/tidal/media_player.py TidalMediaPlayer              *)
(*                                                                         *)
(* Each part has a specification of its own over the same variables: Spec  *)
(* (client and clock), SpecCoord (polling), SpecHeal (polling with         *)
(* fairness), SpecFlow (authorization), SpecSvc (services), SpecSetup,     *)
(* SpecWire (headers and parameters of a request), SpecRead (read methods  *)
(* and accessors), SpecDetail (detail fetchers) and SpecPlayer.            *)
(*                                                                         *)
(* Everything runs on one asyncio event loop.  An action of the model is   *)
(* the code that runs between two suspension points: from the call (or     *)
(* from the resumption with a response) up to the next network await.      *)
(* Time is counted in minutes.                                             *)
(***************************************************************************)
EXTENDS Integers, Sequences, FiniteSets, TLC

VARIABLES
    now,                \* datetime.now(), minutes
    access_token,       \* TidalAPI._access_token
    token_expires,      \* TidalAPI._token_expires
    refresh_token,      \* TidalAPI._refresh_token
    issued,             \* tokens the token endpoint has issued so far
    posted,             \* calls made to the token endpoint so far
    pc,                 \* per task: "idle", "grant" (token call in flight), "data" (data request in flight)
    op,                 \* per task: the client operation running ("request" or "authenticate")
    grantKind,          \* per task: grant_type of the token call in flight
    nGrants,            \* per task: token calls made by the running invocation
    nSends,             \* per task: data requests sent by the running invocation
    sentToken,          \* per task: bearer token of the data request in flight
    seenExpiry,         \* per task: the expiry the running _ensure_token_valid found
    result,             \* how the invocation that ended last ended: "ok" or the exception type raised
    cause,              \* the exchange that ended it: "grant" or "data", and the response
    message,            \* str(err) of the exception that ended it, <<>> when it returned
    stale401,           \* a data request was answered 401 and no token was granted since
    pollStep,           \* _async_update_data: 0 = no poll running, k = k-th fetch in flight
    pollId,             \* number of polls started
    fetched,            \* _async_update_data: the local results of the running poll
    data,               \* DataUpdateCoordinator.data
    last_update_success,\* DataUpdateCoordinator.last_update_success
    last_exception,     \* message prefix of the UpdateFailed of the last failed poll
    last_message,       \* the rest of that message: the {err} it was formatted with
    signal,             \* type of the exception that left the last _async_update_data, "none" if it returned
    up,                 \* the Tidal API has become reachable for good: every exchange is answered 2xx
    flow_step,          \* TidalFlowHandler: the step the flow is at
    flow_source,        \* TidalFlowHandler.context["source"]: "user" or "reauth"
    code_verifier,      \* TidalFlowHandler._code_verifier
    flow_state,         \* TidalFlowHandler._state
    auth_url,           \* the authorization URL of the flow's last redirect
    token_post,         \* the form data of the flow's last token-exchange POST
    flow_tokens,        \* async_step_authorize: access_token and refresh_token of the token response
    flow_result,        \* the FlowResult the flow ended with
    impl_code_verifier, \* TidalOAuth2Implementation._code_verifier
    impl_authorize,     \* what extra_authorize_data returned last
    impl_token_request, \* the code_verifier _token_request added last
    svc_name,           \* the service whose handler is running or ran last, "none" before the first call
    svc_ids,            \* call.data["track_ids"] (or the one track_id) of that call
    svc_idx,            \* remove_from_playlist: ids whose DELETE has completed
    svc_state,          \* the handler: "running", "done" (returned after the refresh), "error" (logged)
    wire,               \* the data requests that call has put on the wire, in order
    refreshes,          \* coordinator.async_request_refresh() calls made by that call
    setup_step,         \* async_setup_entry: "none", "authenticating", "authenticated", "first_refresh", "done"
    setup_cause,        \* where the last async_setup_entry ended: "no_token", "authenticate", "first_refresh", "complete"
    setup_raised,       \* type of the exception async_setup_entry raised, "none" if it returned True
    loaded,             \* what the setup has put in place: runtime_data, platforms, services, llm_tools
    job,                \* the call the caller task is in or was in last: <<kind, name, argument>>
    job_repeat,         \* that call is the same call, with the same arguments, as the one before it
    job_phase,          \* where that call is: "own" request, "parent" fetch, "track" fetch, or "idle"
    job_ids,            \* async_get_*_tracks: track_ids
    job_got,            \* async_get_*_tracks: tracks
    job_return,         \* what the call returned or raised, <<"none">> while it runs
    reqlog,             \* the data requests that call has sent: method, endpoint, headers, params
    player_state,       \* TidalMediaPlayer._state
    current_track,      \* TidalMediaPlayer._current_track
    current_playlist,   \* TidalMediaPlayer._current_playlist
    current_album       \* TidalMediaPlayer._current_album

apiVars   == <<access_token, token_expires, refresh_token>>
srvVars   == <<issued, posted>>
taskVars  == <<pc, op, grantKind, nGrants, nSends, sentToken, seenExpiry, result, cause, message>>
coordVars == <<pollStep, pollId, fetched, data, last_update_success, last_exception,
               last_message, signal>>
flowVars  == <<flow_step, flow_source, code_verifier, flow_state, auth_url, token_post,
               flow_tokens, flow_result>>
implVars  == <<impl_code_verifier, impl_authorize, impl_token_request>>
svcVars   == <<svc_name, svc_ids, svc_idx, svc_state, wire, refreshes>>
setupVars == <<setup_step, setup_cause, setup_raised, loaded>>
jobVars   == <<job, job_repeat, job_phase, job_ids, job_got, job_return, reqlog>>
playerVars == <<player_state, current_track, current_playlist, current_album>>
mediaVars == <<jobVars, playerVars>>
extVars   == <<up, flowVars, implVars, svcVars, setupVars, mediaVars>>
vars == <<now, apiVars, srvVars, taskVars, stale401, coordVars, extVars>>

(***************************************************************************)
(* Bounds of the model.                                                    *)
(***************************************************************************)
MaxGrants == 2      \* calls to the token endpoint
MaxPolls  == 2      \* polls started

\* the instants at which the clock is looked at: a token of one hour granted at
\* 0 is at its refresh boundary at 55 and expires at 60
ClockPoints == {0, 5, 55, 60}

(***************************************************************************)
(* Program constants, in minutes.                                          *)
(***************************************************************************)
RefreshMargin    == 5    \* timedelta(minutes=5)
AssumedLifetime  == 60   \* timedelta(hours=1)
DefaultExpiresIn == 60   \* token_data.get("expires_in", 3600), 3600 s

None   == 0      \* Python None, for tokens
NoTime == -1     \* Python None, for _token_expires
Absent == -1     \* a key the JSON body does not have

PyNone   == [none |-> TRUE]     \* Python's None where objects are held
NoReturn == <<"none">>          \* nothing returned or raised yet
NoJob    == <<"none", "none", "none">>
NoStr    == <<>>        \* None, for a text
NoUrl    == <<>>        \* no redirect yet
NoPost   == <<>>        \* no token exchange yet
NoTokens == <<>>        \* no token response yet

Poller == "poll" \* the coordinator's refresh task
Caller == "svc"  \* a task using the client directly (setup, a service, a detail fetch)
Other  == "aux"  \* a second such task
ApiTasks   == {Caller, Other}
CoordTasks == {Poller, Caller}
Procs      == ApiTasks \cup CoordTasks

EntryAccess  == 1    \* the access token stored in the config entry
EntryRefresh == 1    \* the refresh token stored in the config entry

\* expires_in of a token response: absent, or 3 minutes
ExpiresInChoices == {Absent, 3}

(***************************************************************************)
(* aiohttp's view of a response, and Python's except-clause dispatch.      *)
(***************************************************************************)
GrantFailures == {"status401", "status500", "reset", "timeout", "no_access_token"}
DataFailures  == {"status401", "status500", "reset", "timeout"}

\* the exception the transport raises (or the statement after it) for a failed exchange
Raised(kind) ==
    CASE kind \in {"status401", "status500"} -> "ClientResponseError"
      [] kind = "reset"             -> "ClientError"
      [] kind = "timeout"           -> "TimeoutError"
      [] kind = "no_access_token"   -> "KeyError"

StatusOf(kind) ==
    CASE kind = "status401" -> 401
      [] kind = "status500" -> 500
      [] OTHER -> 0

\* except ClientResponseError / except ClientError of the two grants
GrantRaise(kind) ==
    IF Raised(kind) = "ClientResponseError" THEN "TidalAuthError"
    ELSE IF Raised(kind) = "ClientError" THEN "TidalConnectionError"
    ELSE Raised(kind)

\* except ClientResponseError / except ClientError of _request
RequestRaise(kind) ==
    IF Raised(kind) = "ClientResponseError"
    THEN IF StatusOf(kind) = 401 THEN "TidalAuthError" ELSE "TidalConnectionError"
    ELSE IF Raised(kind) = "ClientError" THEN "TidalConnectionError"
    ELSE Raised(kind)

\* str(err) of what the client raises: the f-string prefix and the transport
\* error it was formatted with; an exception the client does not catch keeps
\* its own text
ClientMessage(where, grant, kind) ==
    IF Raised(kind) = "ClientResponseError"
    THEN IF where = "grant"
         THEN <<IF grant = "refresh_token" THEN "Token refresh failed"
                                           ELSE "Authentication failed", kind>>
         ELSE <<IF StatusOf(kind) = 401 THEN "Authentication error"
                                        ELSE "API request failed", kind>>
    ELSE IF Raised(kind) = "ClientError" THEN <<"Connection error", kind>>
    ELSE <<kind>>

(***************************************************************************)
(* TidalAPI                                                                *)
(***************************************************************************)
\* if not self._access_token or not self._token_expires
NoTokenHeld == access_token = None \/ token_expires = NoTime

\* the property is_authenticated
is_authenticated == access_token # None

\* the inverted comparison: refresh while the token is still far from expiry
TokenExpiringInverted == now <= token_expires - RefreshMargin

\* the comparison without the margin: refresh only once the token has expired
TokenExpiringNoMargin == now > token_expires

\* datetime.now() >= self._token_expires - timedelta(minutes=5)
TokenExpiring == now >= token_expires - RefreshMargin

\* _ensure_token_valid that never uses the refresh token
EnsureBranchNoRefresh ==
    IF NoTokenHeld THEN "client_credentials"
    ELSE IF TokenExpiring THEN "client_credentials" ELSE "none"

\* _ensure_token_valid that starts with a refresh-token grant when nothing is held
EnsureBranchRefreshFirst ==
    IF NoTokenHeld THEN "refresh_token"
    ELSE IF TokenExpiring
         THEN IF refresh_token # None THEN "refresh_token" ELSE "client_credentials"
         ELSE "none"

\* the grant _ensure_token_valid makes, "none" when the held token is kept
EnsureBranch ==
    IF NoTokenHeld THEN "client_credentials"
    ELSE IF TokenExpiring
         THEN IF refresh_token # None THEN "refresh_token" ELSE "client_credentials"
         ELSE "none"

\* a grant that records no expiry when the response names none
ExpiryAfterGrantNone(expires_in) ==
    IF expires_in = Absent THEN NoTime ELSE now + expires_in

\* datetime.now() + timedelta(seconds=token_data.get("expires_in", 3600))
ExpiryAfterGrant(expires_in) ==
    now + (IF expires_in = Absent THEN DefaultExpiresIn ELSE expires_in)

\* token_data.get("refresh_token") / token_data.get("refresh_token", self._refresh_token)
RefreshAfterGrant(kind, rt) ==
    IF kind = "refresh_token" /\ rt = Absent THEN refresh_token
    ELSE IF rt = Absent THEN None ELSE rt

\* self._session.post(API_TOKEN_URL, data=data): the task suspends in the grant
PostGrant(p, kind) ==
    /\ posted < MaxGrants
    /\ posted' = posted + 1
    /\ pc' = [pc EXCEPT ![p] = "grant"]
    /\ grantKind' = [grantKind EXCEPT ![p] = kind]
    /\ nGrants' = [nGrants EXCEPT ![p] = 1]
    /\ nSends' = [nSends EXCEPT ![p] = 0]
    /\ UNCHANGED sentToken

\* self._session.request(method, url, headers=headers, **kwargs): the task
\* suspends in the data request, which carries "Bearer <token>"
SendData(p, token, grants) ==
    /\ pc' = [pc EXCEPT ![p] = "data"]
    /\ nSends' = [nSends EXCEPT ![p] = @ + 1]
    /\ nGrants' = [nGrants EXCEPT ![p] = grants]
    /\ sentToken' = [sentToken EXCEPT ![p] = token]
    /\ UNCHANGED <<posted, grantKind>>

\* _request from its call to its first suspension: _ensure_token_valid either
\* posts a grant or returns, and then the data request is sent
StartRequest(p) ==
    /\ op' = [op EXCEPT ![p] = "request"]
    /\ seenExpiry' = [seenExpiry EXCEPT ![p] =
                          IF EnsureBranch = "none" THEN NoTime ELSE token_expires]
    /\ IF EnsureBranch = "none"
       THEN /\ pc' = [pc EXCEPT ![p] = "data"]
            /\ nSends' = [nSends EXCEPT ![p] = 1]
            /\ nGrants' = [nGrants EXCEPT ![p] = 0]
            /\ sentToken' = [sentToken EXCEPT ![p] = access_token]
            /\ UNCHANGED <<posted, grantKind>>
       ELSE PostGrant(p, EnsureBranch)

\* the invocation returns or raises: its frame is gone and the task is idle again
Finish(p, res, why) ==
    /\ pc' = [pc EXCEPT ![p] = "idle"]
    /\ op' = [op EXCEPT ![p] = "request"]
    /\ grantKind' = [grantKind EXCEPT ![p] = "none"]
    /\ nGrants' = [nGrants EXCEPT ![p] = 0]
    /\ nSends' = [nSends EXCEPT ![p] = 0]
    /\ sentToken' = [sentToken EXCEPT ![p] = None]
    /\ seenExpiry' = [seenExpiry EXCEPT ![p] = NoTime]
    /\ result' = res
    /\ cause' = why
    /\ message' = IF why[1] \in {"grant", "data"} /\ why[2] \in GrantFailures
                  THEN ClientMessage(why[1], grantKind[p], why[2])
                  ELSE <<>>

(***************************************************************************)
(* TidalDataUpdateCoordinator                                              *)
(***************************************************************************)
NoData == <<>>      \* DataUpdateCoordinator.data is None
Empty  == 0         \* the empty list an accessor returns without data

\* the dict _async_update_data returns
Snapshot(f) == [playlists |-> f[1], albums |-> f[2], tracks |-> f[3], artists |-> f[4]]

\* a poll that writes each collection into the held snapshot as it arrives
PollStoreInPlace(f, k) ==
    LET old == IF data = NoData
               THEN [playlists |-> Empty, albums |-> Empty, tracks |-> Empty, artists |-> Empty]
               ELSE data[1]
    IN  <<[playlists |-> IF k >= 1 THEN f[1] ELSE old.playlists,
           albums    |-> IF k >= 2 THEN f[2] ELSE old.albums,
           tracks    |-> IF k >= 3 THEN f[3] ELSE old.tracks,
           artists   |-> IF k >= 4 THEN f[4] ELSE old.artists]>>

\* a poll that publishes what it has after the third fetch already
PollStoreEarly(f, k) ==
    IF k = 4 THEN <<Snapshot(f)>>
    ELSE IF k = 3 /\ data # NoData
         THEN <<[data[1] EXCEPT !.playlists = f[1], !.albums = f[2], !.tracks = f[3]]>>
         ELSE data

\* DataUpdateCoordinator.data after the k-th fetch of a poll has returned with
\* the local results f: self.data is assigned once, from the returned dict
PollStore(f, k) == IF k = 4 THEN <<Snapshot(f)>> ELSE data

\* the message of the UpdateFailed raised for an exception of a fetch
PollMessage(exc) ==
    IF exc = "TidalAuthError" THEN "Authentication error"
    ELSE IF exc = "TidalConnectionError" THEN "Connection error"
    ELSE "Unexpected error"

\* the except clauses of _async_update_data: the type of the exception that
\* leaves it when a fetch raised exc
PollSignalNarrow(exc) ==
    IF exc \in {"TidalAuthError", "TidalConnectionError"} THEN "UpdateFailed" ELSE exc

PollSignal(exc) ==
    IF exc = "TidalAuthError" THEN "UpdateFailed"
    ELSE IF exc = "TidalConnectionError" THEN "UpdateFailed"
    ELSE "UpdateFailed"

\* the accessors
playlists == IF data # NoData THEN data[1].playlists ELSE Empty
albums    == IF data # NoData THEN data[1].albums    ELSE Empty
tracks    == IF data # NoData THEN data[1].tracks    ELSE Empty
artists   == IF data # NoData THEN data[1].artists   ELSE Empty

\* a fetch of the running poll raised exc: _async_update_data raises UpdateFailed
PollFailed(exc) ==
    /\ pollStep' = 0
    /\ fetched' = <<>>
    /\ last_update_success' = FALSE
    /\ last_exception' = PollMessage(exc)
    /\ last_message' = message'
    /\ signal' = PollSignal(exc)
    /\ UNCHANGED <<pollId, data>>

(***************************************************************************)
(* Actions                                                                 *)
(***************************************************************************)
Init ==
    /\ now = 0
    /\ access_token = None
    /\ token_expires = NoTime
    /\ refresh_token = None
    /\ issued = 0
    /\ posted = 0
    /\ pc = [p \in Procs |-> "idle"]
    /\ op = [p \in Procs |-> "request"]
    /\ grantKind = [p \in Procs |-> "none"]
    /\ nGrants = [p \in Procs |-> 0]
    /\ nSends = [p \in Procs |-> 0]
    /\ sentToken = [p \in Procs |-> None]
    /\ seenExpiry = [p \in Procs |-> NoTime]
    /\ result = "none"
    /\ cause = <<"none", "none">>
    /\ message = <<>>
    /\ stale401 = FALSE
    /\ pollStep = 0
    /\ pollId = 0
    /\ fetched = <<>>
    /\ data = NoData
    /\ last_update_success = TRUE
    /\ last_exception = "none"
    /\ last_message = <<>>
    /\ signal = "none"
    /\ up = FALSE
    /\ flow_step = "none"
    /\ flow_source = "none"
    /\ code_verifier = NoStr
    /\ flow_state = None
    /\ auth_url = NoUrl
    /\ token_post = NoPost
    /\ flow_tokens = NoTokens
    /\ flow_result = <<"none">>
    /\ impl_code_verifier = NoStr
    /\ impl_authorize = NoUrl
    /\ impl_token_request = NoStr
    /\ svc_name = "none"
    /\ svc_ids = <<>>
    /\ svc_idx = 0
    /\ svc_state = "done"
    /\ wire = <<>>
    /\ refreshes = 0
    /\ setup_step = "none"
    /\ setup_cause = "none"
    /\ setup_raised = "none"
    /\ loaded = {}
    /\ job = NoJob
    /\ job_repeat = FALSE
    /\ job_phase = "idle"
    /\ job_ids = <<>>
    /\ job_got = <<>>
    /\ job_return = NoReturn
    /\ reqlog = <<>>
    /\ player_state = "idle"
    /\ current_track = PyNone
    /\ current_playlist = PyNone
    /\ current_album = PyNone

\* time passes
Tick(t) ==
    /\ t > now
    /\ now' = t
    /\ UNCHANGED <<apiVars, srvVars, taskVars, stale401, coordVars>>

\* TidalAPI.authenticate(access_token=a, refresh_token=r)
Authenticate(a, r) ==
    /\ pc[Caller] = "idle"
    /\ IF a # None /\ r # None
       THEN /\ access_token' = a
            /\ refresh_token' = r
            /\ token_expires' = now + AssumedLifetime
            /\ stale401' = FALSE
            /\ Finish(Caller, "ok", <<"authenticate", "none">>)
            /\ UNCHANGED posted
       ELSE /\ PostGrant(Caller, "client_credentials")
            /\ op' = [op EXCEPT ![Caller] = "authenticate"]
            /\ UNCHANGED <<apiVars, stale401, seenExpiry, result, cause, message>>
    /\ UNCHANGED <<now, issued, coordVars>>

\* a client method other than authenticate is called by a service, a detail
\* fetch or a tool: TidalAPI._request
Request(p) ==
    /\ p # Poller
    /\ pc[p] = "idle"
    /\ StartRequest(p)
    /\ UNCHANGED <<now, apiVars, issued, result, cause, message, stale401, coordVars>>

\* a polling loop that stops scheduling refreshes once a poll has failed
PollStartOnlyWhenFresh ==
    /\ last_update_success
    /\ pollStep = 0
    /\ pc[Poller] = "idle"
    /\ pollId < MaxPolls
    /\ pollId' = pollId + 1
    /\ pollStep' = 1
    /\ fetched' = <<>>
    /\ StartRequest(Poller)
    /\ UNCHANGED <<now, apiVars, issued, result, cause, message, stale401,
                   data, last_update_success, last_exception, last_message, signal>>

\* the coordinator's refresh starts: _async_update_data calls get_user_playlists
PollStart ==
    /\ pollStep = 0
    /\ pc[Poller] = "idle"
    /\ pollId < MaxPolls
    /\ pollId' = pollId + 1
    /\ pollStep' = 1
    /\ fetched' = <<>>
    /\ StartRequest(Poller)
    /\ UNCHANGED <<now, apiVars, issued, result, cause, message, stale401,
                   data, last_update_success, last_exception, last_message, signal>>

\* a grant that keeps the token another task's grant has stored in the meantime
GrantOkFirstWins(p, expires_in, withRefresh) ==
    /\ pc[p] = "grant"
    /\ issued' = issued + 1
    /\ IF op[p] = "request" /\ ~NoTokenHeld /\ ~TokenExpiring
       THEN UNCHANGED apiVars
       ELSE /\ access_token' = issued' + 1
            /\ token_expires' = ExpiryAfterGrant(expires_in)
            /\ refresh_token' = RefreshAfterGrant(grantKind[p], IF withRefresh THEN issued' + 1 ELSE Absent)
    /\ stale401' = FALSE
    /\ IF op[p] = "authenticate"
       THEN /\ Finish(p, "ok", <<"grant", "ok">>)
            /\ UNCHANGED posted
       ELSE /\ SendData(p, access_token', nGrants[p])
            /\ seenExpiry' = [seenExpiry EXCEPT ![p] = NoTime]
            /\ UNCHANGED <<op, result, cause, message>>
    /\ UNCHANGED <<now, coordVars>>

\* the token endpoint answers 200 with access_token, expires_in (or not) and a
\* refresh_token (or not): _get_client_credentials / _refresh_access_token
\* store the token, _ensure_token_valid returns and _request sends
GrantOk(p, expires_in, withRefresh) ==
    /\ pc[p] = "grant"
    /\ issued' = issued + 1
    /\ access_token' = issued' + 1
    /\ token_expires' = ExpiryAfterGrant(expires_in)
    /\ refresh_token' = RefreshAfterGrant(grantKind[p], IF withRefresh THEN issued' + 1 ELSE Absent)
    /\ stale401' = FALSE
    /\ IF op[p] = "authenticate"
       THEN /\ Finish(p, "ok", <<"grant", "ok">>)
            /\ UNCHANGED posted
       ELSE /\ SendData(p, access_token', nGrants[p])
            /\ seenExpiry' = [seenExpiry EXCEPT ![p] = NoTime]
            /\ UNCHANGED <<op, result, cause, message>>
    /\ UNCHANGED <<now, coordVars>>

\* a failing grant that has dropped the held access token before it raises
GrantFailDropsToken(p, kind) ==
    /\ pc[p] = "grant"
    /\ Finish(p, GrantRaise(kind), <<"grant", kind>>)
    /\ IF p = Poller THEN PollFailed(GrantRaise(kind)) ELSE UNCHANGED coordVars
    /\ access_token' = None
    /\ UNCHANGED <<now, token_expires, refresh_token, srvVars, stale401>>

\* the token call fails: the grant raises through _ensure_token_valid and
\* _request (or authenticate) to the caller
GrantFail(p, kind) ==
    /\ pc[p] = "grant"
    /\ Finish(p, GrantRaise(kind), <<"grant", kind>>)
    /\ IF p = Poller THEN PollFailed(GrantRaise(kind)) ELSE UNCHANGED coordVars
    /\ UNCHANGED <<now, apiVars, srvVars, stale401>>

\* the data request is answered 2xx with a JSON body
DataOk(p) ==
    /\ pc[p] = "data"
    /\ IF p = Poller
       THEN /\ data' = PollStore(Append(fetched, pollId), pollStep)
            /\ IF pollStep < 4
               THEN /\ fetched' = Append(fetched, pollId)
                    /\ pollStep' = pollStep + 1
                    /\ StartRequest(p)
                    /\ result' = "ok"
                    /\ cause' = <<"data", "ok">>
                    /\ message' = <<>>
                    /\ UNCHANGED <<last_update_success, last_exception, last_message, signal>>
               ELSE /\ fetched' = <<>>
                    /\ pollStep' = 0
                    /\ last_update_success' = TRUE
                    /\ last_exception' = "none"
                    /\ last_message' = <<>>
                    /\ signal' = "none"
                    /\ Finish(p, "ok", <<"data", "ok">>)
                    /\ UNCHANGED posted
            /\ UNCHANGED pollId
       ELSE /\ Finish(p, "ok", <<"data", "ok">>)
            /\ UNCHANGED <<posted, coordVars>>
    /\ UNCHANGED <<now, apiVars, issued, stale401>>

\* a _request that answers a 401 by refreshing the token and sending again
DataFailRetry(p, kind) ==
    /\ pc[p] = "data"
    /\ IF kind = "status401"
       THEN /\ posted < MaxGrants
            /\ posted' = posted + 1
            /\ pc' = [pc EXCEPT ![p] = "grant"]
            /\ grantKind' = [grantKind EXCEPT ![p] =
                    IF refresh_token # None THEN "refresh_token" ELSE "client_credentials"]
            /\ nGrants' = [nGrants EXCEPT ![p] = @ + 1]
            /\ UNCHANGED <<op, nSends, sentToken, seenExpiry, result, cause, message, issued, coordVars>>
       ELSE /\ Finish(p, RequestRaise(kind), <<"data", kind>>)
            /\ IF p = Poller THEN PollFailed(RequestRaise(kind)) ELSE UNCHANGED coordVars
            /\ UNCHANGED srvVars
    /\ stale401' = (stale401 \/ kind = "status401")
    /\ UNCHANGED <<now, apiVars>>

\* a _request that answers a 401 by dropping the held token
DataFailInvalidate(p, kind) ==
    /\ pc[p] = "data"
    /\ Finish(p, RequestRaise(kind), <<"data", kind>>)
    /\ stale401' = (stale401 \/ kind = "status401")
    /\ IF kind = "status401"
       THEN access_token' = None /\ token_expires' = NoTime /\ UNCHANGED refresh_token
       ELSE UNCHANGED apiVars
    /\ IF p = Poller THEN PollFailed(RequestRaise(kind)) ELSE UNCHANGED coordVars
    /\ UNCHANGED <<now, srvVars>>

\* the data request fails: _request raises
DataFail(p, kind) ==
    /\ pc[p] = "data"
    /\ Finish(p, RequestRaise(kind), <<"data", kind>>)
    /\ stale401' = (stale401 \/ kind = "status401")
    /\ IF p = Poller THEN PollFailed(RequestRaise(kind)) ELSE UNCHANGED coordVars
    /\ UNCHANGED <<now, apiVars, srvVars>>

\* the host cancels the refresh task at its suspension point
PollCancel ==
    /\ pollStep > 0
    /\ pollStep' = 0
    /\ fetched' = <<>>
    /\ Finish(Poller, "CancelledError", <<pc[Poller], "cancel">>)
    /\ signal' = "CancelledError"
    /\ UNCHANGED <<now, apiVars, srvVars, stale401, pollId, data,
                   last_update_success, last_exception, last_message>>

\* the API client used by two tasks, with the clock running
Next ==
    \/ \E t \in ClockPoints : Tick(t) /\ UNCHANGED extVars
    \/ \E a \in {None, EntryAccess}, r \in {None, EntryRefresh} :
          Authenticate(a, r) /\ UNCHANGED extVars
    \/ \E p \in ApiTasks : Request(p) /\ UNCHANGED extVars
    \/ \E p \in ApiTasks, e \in ExpiresInChoices, w \in BOOLEAN :
          GrantOk(p, e, w) /\ UNCHANGED extVars
    \/ \E p \in ApiTasks, k \in GrantFailures : GrantFail(p, k) /\ UNCHANGED extVars
    \/ \E p \in ApiTasks : DataOk(p) /\ UNCHANGED extVars
    \/ \E p \in ApiTasks, k \in DataFailures : DataFail(p, k) /\ UNCHANGED extVars

Spec == Init /\ [][Next]_vars

\* the coordinator polling through the client while another task uses it
NextCoord ==
    \/ \E a \in {None, EntryAccess}, r \in {None, EntryRefresh} :
          Authenticate(a, r) /\ UNCHANGED extVars
    \/ PollStart /\ UNCHANGED extVars
    \/ \E p \in CoordTasks : Request(p) /\ UNCHANGED extVars
    \/ \E p \in CoordTasks, e \in ExpiresInChoices, w \in BOOLEAN :
          GrantOk(p, e, w) /\ UNCHANGED extVars
    \/ \E p \in CoordTasks, k \in GrantFailures : GrantFail(p, k) /\ UNCHANGED extVars
    \/ \E p \in CoordTasks : DataOk(p) /\ UNCHANGED extVars
    \/ \E p \in CoordTasks, k \in DataFailures : DataFail(p, k) /\ UNCHANGED extVars
    \/ PollCancel /\ UNCHANGED extVars

SpecCoord == Init /\ [][NextCoord]_vars

(***************************************************************************)
(* The polling loop on its own, with the API failing until it recovers.    *)
(***************************************************************************)
\* the two states of the coordinator the host sees
Fresh  == last_update_success /\ data # NoData
Failed == ~last_update_success

\* the outage ends: from now on the token endpoint and the API answer 2xx
Recover ==
    /\ ~up
    /\ up' = TRUE
    /\ UNCHANGED <<now, apiVars, srvVars, taskVars, stale401, coordVars, flowVars, implVars,
                   svcVars, setupVars, mediaVars>>

\* an exchange of the refresh task is answered
PollResponse ==
    \/ \E e \in ExpiresInChoices, w \in BOOLEAN : GrantOk(Poller, e, w) /\ UNCHANGED extVars
    \/ DataOk(Poller) /\ UNCHANGED extVars
    \/ ~up /\ \E k \in GrantFailures : GrantFail(Poller, k) /\ UNCHANGED extVars
    \/ ~up /\ \E k \in DataFailures : DataFail(Poller, k) /\ UNCHANGED extVars

NextHeal ==
    \/ \E a \in {None, EntryAccess}, r \in {None, EntryRefresh} :
          Authenticate(a, r) /\ UNCHANGED extVars
    \/ \E e \in ExpiresInChoices, w \in BOOLEAN : GrantOk(Caller, e, w) /\ UNCHANGED extVars
    \/ PollStart /\ UNCHANGED extVars
    \/ PollResponse
    \/ Recover

\* the host's interval timer starts every poll that is due, and the client's
\* total timeout ends every exchange
SpecHeal ==
    /\ Init /\ [][NextHeal]_vars
    /\ WF_vars(PollStart /\ UNCHANGED extVars)
    /\ WF_vars(PollResponse)

(***************************************************************************)
(* PKCE: config_flow.py and application_credentials.py.  A byte string is  *)
(* <<"bytes", id>> or <<"sha256", text>>; the text base64 makes of it is   *)
(* <<"b64url", bytes, number of "=" at its end>>.                          *)
(***************************************************************************)
TokenBytesLen == 32     \* secrets.token_bytes(32)
DigestLen     == 32     \* a SHA-256 digest
MinVerifier   == 43     \* RFC 7636: 43 <= len(code_verifier) <= 128
MaxVerifier   == 128

RandomBytes == {1, 2}   \* the values secrets.token_bytes(32) may return
StateNonces == {1, 2}   \* the values secrets.token_urlsafe(32) may return

\* secrets.token_bytes(32)
TokenBytes(r) == <<"bytes", r>>

\* hashlib.sha256(text.encode("utf-8")).digest()
Sha256(text) == <<"sha256", text>>

ByteLen(b) == IF b[1] = "sha256" THEN DigestLen ELSE TokenBytesLen

\* the "=" base64 appends to n bytes
Padding(n) == (3 - (n % 3)) % 3

\* base64.urlsafe_b64encode(b).decode("utf-8")
UrlsafeB64(b) == <<"b64url", b, Padding(ByteLen(b))>>

\* text.rstrip("=")
RStrip(text) == <<text[1], text[2], 0>>

\* len(text) of a base64 text
StrLen(text) == 4 * ((ByteLen(text[2]) + 2) \div 3) - Padding(ByteLen(text[2])) + text[3]

\* config_flow.py:65 and application_credentials.py:60-62
CodeVerifier(r) == RStrip(UrlsafeB64(TokenBytes(r)))

\* a challenge that keeps the base64 padding
CodeChallengePadded(verifier) == UrlsafeB64(Sha256(verifier))

\* config_flow.py:66-67 and TidalOAuth2Implementation._generate_code_challenge
CodeChallenge(verifier) == RStrip(UrlsafeB64(Sha256(verifier)))

(***************************************************************************)
(* TidalFlowHandler                                                        *)
(***************************************************************************)
\* the methods TidalAPI defines (api.py:58-439)
ApiMethods ==
    {"authenticate", "get_user_playlists", "get_user_albums", "get_user_tracks",
     "get_user_artists", "get_album", "get_track", "get_playlist", "get_artist", "search",
     "create_playlist", "add_to_playlist", "remove_from_playlist", "add_favorite_album",
     "remove_favorite_album", "add_favorite_track", "remove_favorite_track"}

\* self.async_abort(reason=...)
Abort(reason) == <<"abort", reason>>

\* the flow manager creates the handler: TidalFlowHandler.__init__
FlowBegin(source) ==
    /\ flow_step \in {"none", "done"}
    /\ flow_source' = source
    /\ flow_step' = IF source = "reauth" THEN "reauth_confirm" ELSE "user"
    /\ code_verifier' = NoStr
    /\ flow_state' = None
    /\ auth_url' = NoUrl
    /\ token_post' = NoPost
    /\ flow_tokens' = NoTokens
    /\ flow_result' = <<"none">>

\* the body of async_step_user for a user_input that is not None: a new
\* verifier and state, and the redirect to the authorization URL
StepUser(r, st) ==
    /\ code_verifier' = CodeVerifier(r)
    /\ flow_state' = st
    /\ auth_url' = [code_challenge |-> CodeChallenge(code_verifier'),
                    code_challenge_method |-> "S256",
                    state |-> flow_state']
    /\ flow_step' = "authorize"
    /\ flow_result' = <<"external", "authorize">>
    /\ UNCHANGED <<flow_source, token_post, flow_tokens>>

\* async_step_user(user_input) with the form filled in
FlowUser(r, st) ==
    /\ flow_step = "user"
    /\ StepUser(r, st)

\* async_step_reauth_confirm: without the entry the flow aborts, with the
\* confirmed form it restarts the OAuth flow through async_step_user
FlowReauthConfirm(hasEntry, r, st) ==
    /\ flow_step = "reauth_confirm"
    /\ IF hasEntry
       THEN StepUser(r, st)
       ELSE /\ flow_step' = "done"
            /\ flow_result' = Abort("reauth_failed")
            /\ UNCHANGED <<flow_source, code_verifier, flow_state, auth_url, token_post,
                           flow_tokens>>

\* api.get_current_user(): TidalAPI has no such attribute, the lookup raises
\* AttributeError before anything is sent
GetCurrentUser == IF "get_current_user" \in ApiMethods THEN "request" ELSE "AttributeError"

\* async_step_authorize from api.get_current_user() on: the exception is
\* caught by "except Exception" and the flow aborts
AfterAuthenticate ==
    /\ flow_step' = IF GetCurrentUser = "AttributeError" THEN "done" ELSE "user_info"
    /\ flow_result' = IF GetCurrentUser = "AttributeError"
                      THEN Abort("auth_failed") ELSE flow_result

\* an async_step_authorize that makes a verifier of its own for the exchange
FlowAuthorizeNewVerifier(hasInput, st, code) ==
    /\ flow_step = "authorize"
    /\ IF ~hasInput \/ st # flow_state \/ code = None
       THEN /\ flow_step' = "done"
            /\ flow_result' = Abort(IF ~hasInput THEN "missing_credentials"
                                    ELSE IF st # flow_state THEN "invalid_state"
                                    ELSE "missing_code")
            /\ UNCHANGED token_post
       ELSE /\ flow_step' = "exchange"
            /\ \E r \in RandomBytes :
                  token_post' = [grant_type |-> "authorization_code", code |-> code,
                                 code_verifier |-> CodeVerifier(r)]
            /\ UNCHANGED flow_result
    /\ UNCHANGED <<flow_source, code_verifier, flow_state, auth_url, flow_tokens>>

\* an async_step_authorize that does not compare the state of the callback
FlowAuthorizeIgnoresState(hasInput, st, code) ==
    /\ flow_step = "authorize"
    /\ IF ~hasInput \/ code = None
       THEN /\ flow_step' = "done"
            /\ flow_result' = Abort(IF ~hasInput THEN "missing_credentials" ELSE "missing_code")
            /\ UNCHANGED token_post
       ELSE /\ flow_step' = "exchange"
            /\ token_post' = [grant_type |-> "authorization_code", code |-> code,
                              code_verifier |-> code_verifier]
            /\ UNCHANGED flow_result
    /\ UNCHANGED <<flow_source, code_verifier, flow_state, auth_url, flow_tokens>>

\* async_step_authorize(user_input) up to the token-exchange POST; st and
\* code are user_input.get("state") and user_input.get("code")
FlowAuthorize(hasInput, st, code) ==
    /\ flow_step = "authorize"
    /\ IF ~hasInput \/ st # flow_state \/ code = None
       THEN /\ flow_step' = "done"
            /\ flow_result' = Abort(IF ~hasInput THEN "missing_credentials"
                                    ELSE IF st # flow_state THEN "invalid_state"
                                    ELSE "missing_code")
            /\ UNCHANGED token_post
       ELSE /\ flow_step' = "exchange"
            /\ token_post' = [grant_type |-> "authorization_code", code |-> code,
                              code_verifier |-> code_verifier]
            /\ UNCHANGED flow_result
    /\ UNCHANGED <<flow_source, code_verifier, flow_state, auth_url, flow_tokens>>

\* the token exchange fails (raise_for_status, the transport, or a body
\* without access_token): "except Exception" aborts the flow
FlowExchangeFail(kind) ==
    /\ flow_step = "exchange"
    /\ flow_step' = "done"
    /\ flow_result' = Abort("auth_failed")
    /\ UNCHANGED <<flow_source, code_verifier, flow_state, auth_url, token_post, flow_tokens>>

\* the token exchange is answered with access token a and refresh token r
\* (None when the body has none): a new TidalAPI is made and authenticate(a, r)
\* either stores the two tokens or posts a client-credentials grant
FlowExchangeOk(a, r) ==
    /\ flow_step = "exchange"
    /\ pc[Caller] = "idle"
    /\ flow_tokens' = <<a, r>>
    /\ IF a # None /\ r # None
       THEN /\ access_token' = a
            /\ refresh_token' = r
            /\ token_expires' = now + AssumedLifetime
            /\ stale401' = FALSE
            /\ Finish(Caller, "ok", <<"authenticate", "none">>)
            /\ UNCHANGED posted
            /\ AfterAuthenticate
       ELSE /\ access_token' = None
            /\ refresh_token' = None
            /\ token_expires' = NoTime
            /\ PostGrant(Caller, "client_credentials")
            /\ op' = [op EXCEPT ![Caller] = "authenticate"]
            /\ flow_step' = "authenticating"
            /\ UNCHANGED <<stale401, seenExpiry, result, cause, message, flow_result>>
    /\ UNCHANGED <<flow_source, code_verifier, flow_state, auth_url, token_post>>
    /\ UNCHANGED <<now, issued>>

\* the grant of authenticate is answered with a token
FlowGrantOk(expires_in, withRefresh) ==
    /\ flow_step = "authenticating"
    /\ GrantOk(Caller, expires_in, withRefresh)
    /\ AfterAuthenticate
    /\ UNCHANGED <<flow_source, code_verifier, flow_state, auth_url, token_post, flow_tokens>>

\* the grant of authenticate fails: whatever it raises is caught and the flow aborts
FlowGrantFail(kind) ==
    /\ flow_step = "authenticating"
    /\ GrantFail(Caller, kind)
    /\ flow_step' = "done"
    /\ flow_result' = Abort("auth_failed")
    /\ UNCHANGED <<flow_source, code_verifier, flow_state, auth_url, token_post, flow_tokens>>

(***************************************************************************)
(* TidalOAuth2Implementation                                               *)
(***************************************************************************)
\* __init__: the verifier is made once, with the instance
ImplInit(r) ==
    /\ impl_code_verifier = NoStr
    /\ impl_code_verifier' = CodeVerifier(r)
    /\ UNCHANGED <<impl_authorize, impl_token_request>>

\* extra_authorize_data, read when the authorize URL is generated
ImplAuthorize ==
    /\ impl_code_verifier # NoStr
    /\ impl_authorize' = [code_challenge |-> CodeChallenge(impl_code_verifier),
                          code_challenge_method |-> "S256"]
    /\ UNCHANGED <<impl_code_verifier, impl_token_request>>

\* _token_request: data["code_verifier"] = self._code_verifier
ImplTokenRequest ==
    /\ impl_authorize # NoUrl
    /\ impl_token_request' = impl_code_verifier
    /\ UNCHANGED <<impl_code_verifier, impl_authorize>>

\* everything outside the config flow and the OAuth2 implementation
restVars == <<now, apiVars, srvVars, taskVars, stale401, coordVars, up, svcVars, setupVars,
              mediaVars>>

\* the authorization flows
NextFlow ==
    \/ \E src \in {"user", "reauth"} : FlowBegin(src) /\ UNCHANGED <<restVars, implVars>>
    \/ \E r \in RandomBytes, st \in StateNonces : FlowUser(r, st) /\ UNCHANGED <<restVars, implVars>>
    \/ \E e \in BOOLEAN, r \in RandomBytes, st \in StateNonces :
          FlowReauthConfirm(e, r, st) /\ UNCHANGED <<restVars, implVars>>
    \/ \E i \in BOOLEAN, st \in StateNonces \cup {None}, code \in {None, 1} :
          FlowAuthorize(i, st, code) /\ UNCHANGED <<restVars, implVars>>
    \/ \E k \in GrantFailures : FlowExchangeFail(k) /\ UNCHANGED <<restVars, implVars>>
    \/ \E a \in {EntryAccess}, r \in {None, EntryRefresh} :
          FlowExchangeOk(a, r) /\ UNCHANGED <<coordVars, up, implVars, svcVars, setupVars, mediaVars>>
    \/ \E e \in ExpiresInChoices, w \in BOOLEAN : FlowGrantOk(e, w) /\ UNCHANGED <<up, implVars, svcVars, setupVars, mediaVars>>
    \/ \E k \in GrantFailures : FlowGrantFail(k) /\ UNCHANGED <<up, implVars, svcVars, setupVars, mediaVars>>
    \/ \E r \in RandomBytes : ImplInit(r) /\ UNCHANGED <<restVars, flowVars>>
    \/ ImplAuthorize /\ UNCHANGED <<restVars, flowVars>>
    \/ ImplTokenRequest /\ UNCHANGED <<restVars, flowVars>>

SpecFlow == Init /\ [][NextFlow]_vars

(***************************************************************************)
(* services.py: the handlers of the mutating services, and the client      *)
(* methods they call                                                       *)
(***************************************************************************)
MaxIds == 3                 \* length of a track_ids list

TrackIds == {"t1", "t2"}    \* the track ids a call may name
UserId     == "u1"          \* TidalAPI._user_id
PlaylistId == "p1"          \* call.data["playlist_id"]
NoBody == <<>>              \* a request without json=

MutatingServices ==
    {"add_to_playlist", "remove_from_playlist", "create_playlist", "like_track", "unlike_track"}

\* the lists a call may pass as track_ids
IdLists == UNION {[1..n -> TrackIds] : n \in 0..MaxIds}

\* the arguments the schema of a service admits
ArgsOf(name) ==
    IF name \in {"add_to_playlist", "remove_from_playlist"} THEN IdLists
    ELSE IF name = "create_playlist" THEN {<<>>}
    ELSE {<<t>> : t \in TrackIds}

\* add_to_playlist: {"data": [{"type": "tracks", "id": track_id} for track_id in track_ids]}
AddBody(ids) == [data |-> [i \in 1..Len(ids) |-> [type |-> "tracks", id |-> ids[i]]]]

\* the request the client method of service name makes for ids, the i-th of
\* them for remove_from_playlist: method, path and JSON body
RequestOf(name, ids, i) ==
    CASE name = "add_to_playlist" ->
            <<"POST", <<"playlists", PlaylistId, "tracks">>, AddBody(ids)>>
      [] name = "remove_from_playlist" ->
            <<"DELETE", <<"playlists", PlaylistId, "tracks", ids[i]>>, NoBody>>
      [] name = "create_playlist" ->
            <<"POST", <<"userCollections", UserId, "playlists">>,
              [data |-> [type |-> "playlists"]]>>
      [] name = "like_track" ->
            <<"POST", <<"userCollections", UserId, "tracks">>,
              [data |-> [type |-> "tracks", id |-> ids[1]]]>>
      [] name = "unlike_track" ->
            <<"DELETE", <<"userCollections", UserId, "tracks", ids[1]>>, NoBody>>

\* the request _request sends next for the running call
CurrentRequest == RequestOf(svc_name, svc_ids, svc_idx + 1)

\* a remove_from_playlist that stops after its first DELETE
RemoveLoopStopsEarly == FALSE

\* remove_from_playlist: the for loop has another track_id
RemoveLoopContinues ==
    svc_name = "remove_from_playlist" /\ svc_idx + 1 < Len(svc_ids)

\* the handler returns after the mutation and the refresh request
SvcReturn ==
    /\ refreshes' = refreshes + 1
    /\ svc_state' = "done"

\* an except clause that asks the coordinator for a refresh all the same
SvcCaughtRefreshes ==
    /\ svc_state' = "error"
    /\ refreshes' = refreshes + 1
    /\ UNCHANGED <<svc_name, svc_ids, svc_idx, wire>>

\* the mutation raised: "except Exception" logs it, no refresh is requested
SvcCaught ==
    /\ svc_state' = "error"
    /\ UNCHANGED <<svc_name, svc_ids, svc_idx, wire, refreshes>>

\* a service of the integration is called: the handler calls the client
\* method, which runs up to its first suspension
SvcCall(name, ids) ==
    /\ svc_state # "running"
    /\ pc[Caller] = "idle"
    /\ svc_name' = name
    /\ svc_ids' = ids
    /\ svc_idx' = 0
    /\ IF name = "remove_from_playlist" /\ ids = <<>>
       THEN /\ wire' = <<>>
            /\ refreshes' = 1
            /\ svc_state' = "done"
            /\ UNCHANGED <<srvVars, taskVars>>
       ELSE /\ StartRequest(Caller)
            /\ wire' = IF pc'[Caller] = "data" THEN <<RequestOf(name, ids, 1)>> ELSE <<>>
            /\ refreshes' = 0
            /\ svc_state' = "running"
            /\ UNCHANGED <<issued, result, cause, message>>
    /\ UNCHANGED <<now, apiVars, stale401>>

\* the grant made for a request of the running call is answered with a token:
\* the request goes out
SvcGrantOk(expires_in, withRefresh) ==
    /\ svc_state = "running"
    /\ GrantOk(Caller, expires_in, withRefresh)
    /\ wire' = Append(wire, CurrentRequest)
    /\ UNCHANGED <<svc_name, svc_ids, svc_idx, svc_state, refreshes>>

\* that grant fails
SvcGrantFail(kind) ==
    /\ svc_state = "running"
    /\ GrantFail(Caller, kind)
    /\ SvcCaught

\* a handler that asks for the refresh after every request of the mutation
SvcDataOkRefreshInLoop ==
    /\ svc_state = "running"
    /\ pc[Caller] = "data"
    /\ refreshes' = refreshes + 1
    /\ IF RemoveLoopContinues
       THEN /\ svc_idx' = svc_idx + 1
            /\ StartRequest(Caller)
            /\ wire' = IF pc'[Caller] = "data"
                        THEN Append(wire, RequestOf(svc_name, svc_ids, svc_idx' + 1))
                        ELSE wire
            /\ result' = "ok"
            /\ cause' = <<"data", "ok">>
            /\ message' = <<>>
            /\ UNCHANGED <<now, apiVars, issued, stale401, coordVars, svc_state>>
       ELSE /\ DataOk(Caller)
            /\ svc_state' = "done"
            /\ UNCHANGED <<svc_idx, wire>>
    /\ UNCHANGED <<svc_name, svc_ids>>

\* a request of the running call is answered 2xx: remove_from_playlist goes
\* on with its next id, every other method returns and the handler asks the
\* coordinator for a refresh
SvcDataOk ==
    /\ svc_state = "running"
    /\ pc[Caller] = "data"
    /\ IF RemoveLoopContinues
       THEN /\ svc_idx' = svc_idx + 1
            /\ StartRequest(Caller)
            /\ wire' = IF pc'[Caller] = "data"
                        THEN Append(wire, RequestOf(svc_name, svc_ids, svc_idx' + 1))
                        ELSE wire
            /\ result' = "ok"
            /\ cause' = <<"data", "ok">>
            /\ message' = <<>>
            /\ UNCHANGED <<now, apiVars, issued, stale401, coordVars, svc_state, refreshes>>
       ELSE /\ DataOk(Caller)
            /\ SvcReturn
            /\ UNCHANGED <<svc_idx, wire>>
    /\ UNCHANGED <<svc_name, svc_ids>>

\* a remove_from_playlist that skips an id whose DELETE failed and goes on
SvcDataFailSkips(kind) ==
    /\ svc_state = "running"
    /\ pc[Caller] = "data"
    /\ IF RemoveLoopContinues
       THEN /\ svc_idx' = svc_idx + 1
            /\ StartRequest(Caller)
            /\ wire' = IF pc'[Caller] = "data"
                        THEN Append(wire, RequestOf(svc_name, svc_ids, svc_idx' + 1))
                        ELSE wire
            /\ result' = RequestRaise(kind)
            /\ cause' = <<"data", kind>>
            /\ message' = <<>>
            /\ stale401' = (stale401 \/ kind = "status401")
            /\ UNCHANGED <<now, apiVars, issued, coordVars, svc_state, refreshes,
                           svc_name, svc_ids>>
       ELSE /\ DataFail(Caller, kind)
            /\ SvcCaught

\* a request of the running call fails
SvcDataFail(kind) ==
    /\ svc_state = "running"
    /\ DataFail(Caller, kind)
    /\ SvcCaught

\* the service handlers
NextSvc ==
    \/ \E a \in {None, EntryAccess}, r \in {None, EntryRefresh} :
          /\ svc_state # "running"
          /\ Authenticate(a, r)
          /\ UNCHANGED extVars
    \/ \E e \in ExpiresInChoices, w \in BOOLEAN :
          /\ svc_state # "running"
          /\ GrantOk(Caller, e, w)
          /\ UNCHANGED extVars
    \/ \E name \in MutatingServices : \E ids \in ArgsOf(name) :
          SvcCall(name, ids) /\ UNCHANGED <<coordVars, up, flowVars, implVars, setupVars, mediaVars>>
    \/ \E e \in ExpiresInChoices, w \in BOOLEAN :
          SvcGrantOk(e, w) /\ UNCHANGED <<up, flowVars, implVars, setupVars, mediaVars>>
    \/ \E k \in GrantFailures : SvcGrantFail(k) /\ UNCHANGED <<up, flowVars, implVars, setupVars, mediaVars>>
    \/ SvcDataOk /\ UNCHANGED <<up, flowVars, implVars, setupVars, mediaVars>>
    \/ \E k \in DataFailures : SvcDataFail(k) /\ UNCHANGED <<up, flowVars, implVars, setupVars, mediaVars>>

SpecSvc == Init /\ [][NextSvc]_vars

(***************************************************************************)
(* __init__.py: async_setup_entry                                          *)
(***************************************************************************)
Components == {"runtime_data", "platforms", "services", "llm_tools"}

\* the except clauses around api.authenticate: what async_setup_entry raises
\* when authenticate raised exc
SetupRaise(exc) ==
    IF exc = "TidalAuthError" THEN "ConfigEntryAuthFailed"
    ELSE IF exc = "TidalConnectionError" THEN "ConfigEntryNotReady"
    ELSE exc

\* coordinator.async_config_entry_first_refresh(): what it raises when the
\* first _async_update_data left with sig
FirstRefreshRaise(sig) ==
    IF sig = "ConfigEntryAuthFailed" THEN "ConfigEntryAuthFailed" ELSE "ConfigEntryNotReady"

\* async_setup_entry raises exc
SetupFails(where, exc) ==
    /\ setup_step' = "done"
    /\ setup_cause' = where
    /\ setup_raised' = exc
    /\ loaded' = {}

\* the host sets the entry up (first load, retry or reload) with access
\* token a and refresh token r in entry.data, None when missing: up to the
\* grant of authenticate, or to its return
SetupStart(a, r) ==
    /\ setup_step \in {"none", "done"}
    /\ pc[Caller] = "idle" /\ pollStep = 0
    /\ IF a = None
       THEN /\ SetupFails("no_token", "ConfigEntryAuthFailed")
            /\ UNCHANGED <<apiVars, srvVars, taskVars, stale401>>
       ELSE /\ setup_cause' = "none"
            /\ setup_raised' = "none"
            /\ loaded' = {}
            /\ IF r # None
               THEN /\ access_token' = a
                    /\ refresh_token' = r
                    /\ token_expires' = now + AssumedLifetime
                    /\ stale401' = FALSE
                    /\ Finish(Caller, "ok", <<"authenticate", "none">>)
                    /\ setup_step' = "authenticated"
                    /\ UNCHANGED srvVars
               ELSE /\ access_token' = None
                    /\ refresh_token' = None
                    /\ token_expires' = NoTime
                    /\ PostGrant(Caller, "client_credentials")
                    /\ op' = [op EXCEPT ![Caller] = "authenticate"]
                    /\ setup_step' = "authenticating"
                    /\ UNCHANGED <<issued, stale401, seenExpiry, result, cause, message>>
    /\ UNCHANGED <<now, coordVars>>

\* the grant of authenticate is answered with a token: authenticate returns
SetupGrantOk(expires_in, withRefresh) ==
    /\ setup_step = "authenticating"
    /\ GrantOk(Caller, expires_in, withRefresh)
    /\ setup_step' = "authenticated"
    /\ UNCHANGED <<setup_cause, setup_raised, loaded>>

\* the grant of authenticate fails
SetupGrantFail(kind) ==
    /\ setup_step = "authenticating"
    /\ GrantFail(Caller, kind)
    /\ SetupFails("authenticate", SetupRaise(GrantRaise(kind)))

\* authenticate has returned: the coordinator is made and
\* async_config_entry_first_refresh starts the first poll
SetupFirstRefresh ==
    /\ setup_step = "authenticated"
    /\ PollStart
    /\ setup_step' = "first_refresh"
    /\ UNCHANGED <<setup_cause, setup_raised, loaded>>

\* an exchange of the first poll is answered well; after the fourth fetch the
\* coordinator is stored and platforms, services and LLM tools are set up
SetupPollOk(expires_in, withRefresh) ==
    /\ setup_step = "first_refresh"
    /\ IF pc[Poller] = "grant"
       THEN /\ GrantOk(Poller, expires_in, withRefresh)
            /\ UNCHANGED setupVars
       ELSE /\ DataOk(Poller)
            /\ IF pollStep = 4
               THEN /\ setup_step' = "done"
                    /\ setup_cause' = "complete"
                    /\ setup_raised' = "none"
                    /\ loaded' = Components
               ELSE UNCHANGED setupVars

\* an exchange of the first poll fails: the first refresh raises
SetupPollFail(kind) ==
    /\ setup_step = "first_refresh"
    /\ IF pc[Poller] = "grant"
       THEN kind \in GrantFailures /\ GrantFail(Poller, kind)
       ELSE kind \in DataFailures /\ DataFail(Poller, kind)
    /\ SetupFails("first_refresh", FirstRefreshRaise(signal'))

\* setting the entry up
NextSetup ==
    \/ \E a \in {None, EntryAccess}, r \in {None, EntryRefresh} :
          SetupStart(a, r) /\ UNCHANGED <<up, flowVars, implVars, svcVars, mediaVars>>
    \/ \E e \in ExpiresInChoices, w \in BOOLEAN :
          SetupGrantOk(e, w) /\ UNCHANGED <<up, flowVars, implVars, svcVars, mediaVars>>
    \/ \E k \in GrantFailures : SetupGrantFail(k) /\ UNCHANGED <<up, flowVars, implVars, svcVars, mediaVars>>
    \/ SetupFirstRefresh /\ UNCHANGED <<up, flowVars, implVars, svcVars, mediaVars>>
    \/ \E e \in ExpiresInChoices, w \in BOOLEAN :
          SetupPollOk(e, w) /\ UNCHANGED <<up, flowVars, implVars, svcVars, mediaVars>>
    \/ \E k \in GrantFailures : SetupPollFail(k) /\ UNCHANGED <<up, flowVars, implVars, svcVars, mediaVars>>

SpecSetup == Init /\ [][NextSetup]_vars

(***************************************************************************)
(* api.py: _request and the read methods; coordinator.py: the detail       *)
(* fetchers; media_player.py.  A JSON object is a record, a JSON array or  *)
(* a Python list is List(seq), so that [] and {} are different values.     *)
(***************************************************************************)
MaxTracks == 2              \* length of the tracks relationship of a playlist or album

CountryCode == "US"         \* TidalAPI._country_code
MediaId == "m1"             \* the id a call names

List(seq) == [items |-> seq]
EmptyList == List(<<>>)                 \* []
EmptyObject == [k \in {} |-> k]         \* {}
NoParams == [k \in {} |-> k]            \* kwargs without params=

CollectionMethods ==
    {"get_user_playlists", "get_user_albums", "get_user_tracks", "get_user_artists"}
ResourceMethods == {"get_album", "get_track", "get_playlist", "get_artist", "search"}

\* the params a direct caller of _request may pass
RawParams ==
    {NoParams, [include |-> "tracks"], [countryCode |-> "DE"],
     [countryCode |-> "DE", include |-> "tracks"]}

\* search(query, search_type), "" for a search_type that is None or empty
SearchArgs == {<<"q", "">>, <<"q", "tracks">>}

\* the arguments of a call of client method name
ReadArgs(name) ==
    IF name \in CollectionMethods THEN {"none"}
    ELSE IF name = "search" THEN SearchArgs
    ELSE IF name = "_request" THEN RawParams
    ELSE {MediaId}

\* what a client method hands to _request: method, endpoint and params
MethodRequest(name, arg) ==
    CASE name = "get_user_playlists" ->
            [method |-> "GET", endpoint |-> <<"userCollections", UserId, "playlists">>,
             params |-> NoParams]
      [] name = "get_user_albums" ->
            [method |-> "GET", endpoint |-> <<"userCollections", UserId, "albums">>,
             params |-> NoParams]
      [] name = "get_user_tracks" ->
            [method |-> "GET", endpoint |-> <<"userCollections", UserId, "tracks">>,
             params |-> NoParams]
      [] name = "get_user_artists" ->
            [method |-> "GET", endpoint |-> <<"userCollections", UserId, "artists">>,
             params |-> NoParams]
      [] name = "get_album" ->
            [method |-> "GET", endpoint |-> <<"albums", arg>>, params |-> NoParams]
      [] name = "get_track" ->
            [method |-> "GET", endpoint |-> <<"tracks", arg>>, params |-> NoParams]
      [] name = "get_playlist" ->
            [method |-> "GET", endpoint |-> <<"playlists", arg>>, params |-> NoParams]
      [] name = "get_artist" ->
            [method |-> "GET", endpoint |-> <<"artists", arg>>, params |-> NoParams]
      [] name = "search" ->
            [method |-> "GET", endpoint |-> <<"searchResults">>,
             params |-> IF arg[2] # "" THEN [query |-> arg[1], type |-> arg[2]]
                                       ELSE [query |-> arg[1]]]
      [] name = "_request" ->
            [method |-> "GET", endpoint |-> <<"albums", MediaId>>, params |-> arg]

\* the headers _request builds
Headers(token) ==
    ("Authorization" :> <<"Bearer", token>>) @@ ("Content-Type" :> "application/vnd.api+json")

\* a _request that sets the country code of the client whatever the caller passed
WithCountryCodeForced(params) ==
    [countryCode |-> CountryCode] @@ params

\* if "countryCode" not in params: params["countryCode"] = self._country_code
WithCountryCode(params) ==
    IF "countryCode" \in DOMAIN params THEN params
    ELSE params @@ [countryCode |-> CountryCode]

\* the request as self._session.request sends it, with token the access token
\* held when the headers are built
OnWire(req, token) ==
    [method |-> req.method, endpoint |-> req.endpoint, headers |-> Headers(token),
     params |-> WithCountryCode(req.params)]

\* read methods with the two defaults the wrong way round
ReturnOfSwapped(name, body) ==
    IF name = "_request" THEN body
    ELSE IF "data" \in DOMAIN body THEN body.data
    ELSE IF name \in CollectionMethods THEN EmptyObject ELSE EmptyList

\* response.get("data", []) of the collection methods, response.get("data", {})
\* of the others; _request itself returns the body
ReturnOf(name, body) ==
    IF name = "_request" THEN body
    ELSE IF "data" \in DOMAIN body THEN body.data
    ELSE IF name \in CollectionMethods THEN EmptyList ELSE EmptyObject

\* the tracks relationships a playlist or album may have
TrackLists == UNION {[1..n -> TrackIds] : n \in 0..MaxTracks}

Resource(id) == [id |-> id]     \* a resource object
NoDataBody == [links |-> "self"]    \* a JSON body without "data"

\* the resource object of a playlist or album: without relationships, without
\* a tracks relationship, with one that has no data, with one naming ids
ParentData(id) ==
    {[id |-> id],
     [id |-> id, relationships |-> [owners |-> [data |-> EmptyList]]],
     [id |-> id, relationships |-> [tracks |-> [links |-> "self"]]]}
    \cup {[id |-> id, relationships |->
              [tracks |-> [data |-> List([i \in 1..Len(ids) |-> Resource(ids[i])])]]] :
          ids \in TrackLists}

\* the JSON bodies the API may answer a call of method name with
BodiesFor(name, arg) ==
    IF name \in {"get_playlist", "get_album"}
    THEN {NoDataBody} \cup {[data |-> d] : d \in ParentData(arg)}
    ELSE IF name \in CollectionMethods
    THEN {NoDataBody, [data |-> EmptyList], [data |-> List(<<Resource(MediaId)>>)]}
    ELSE IF name = "get_track" THEN {NoDataBody, [data |-> Resource(arg)]}
    ELSE {NoDataBody, [data |-> Resource(MediaId)]}

\* "relationships" in parent and "tracks" in parent["relationships"]
HasTracks(parent) ==
    /\ "relationships" \in DOMAIN parent
    /\ "tracks" \in DOMAIN parent.relationships

\* [track["id"] for track in parent["relationships"]["tracks"].get("data", [])]
TrackIdsOf(parent) ==
    LET rel == parent.relationships.tracks
        lst == IF "data" \in DOMAIN rel THEN rel.data ELSE EmptyList
    IN  [i \in 1..Len(lst.items) |-> lst.items[i].id]

\* the except clause of the detail fetchers: what leaves them when a fetch raised exc
DetailRaise(exc) ==
    IF exc \in {"TidalAuthError", "TidalConnectionError"} THEN "UpdateFailed" ELSE exc

\* the client method the call j makes at phase ph, and its argument
JobMethod(j, ph, ids, got) ==
    IF ph = "track" THEN <<"get_track", ids[Len(got) + 1]>>
    ELSE IF j[1] = "read" THEN <<j[2], j[3]>>
    ELSE <<IF j[2] = "track" THEN "get_track"
           ELSE IF j[2] = "playlist" THEN "get_playlist" ELSE "get_album", j[3]>>

JobRequest(j, ph, ids, got) ==
    MethodRequest(JobMethod(j, ph, ids, got)[1], JobMethod(j, ph, ids, got)[2])

\* a call starts and runs to its first suspension: the token call or the
\* first data request
JobBegin(j, ph) ==
    /\ job_phase = "idle"
    /\ pc[Caller] = "idle"
    /\ job_repeat' = (j[1] = job[1] /\ j[2] = job[2] /\ j[3] = job[3])
    /\ job' = j
    /\ job_phase' = ph
    /\ job_ids' = <<>>
    /\ job_got' = <<>>
    /\ job_return' = NoReturn
    /\ StartRequest(Caller)
    /\ reqlog' = IF pc'[Caller] = "data"
                 THEN <<OnWire(JobRequest(j, ph, <<>>, <<>>), access_token)>>
                 ELSE <<>>
    /\ UNCHANGED <<now, apiVars, issued, result, cause, message, stale401, coordVars>>

\* a read method of the client, or _request itself, is called
ReadCall(name, arg) ==
    /\ JobBegin(<<"read", name, arg>>, "own")
    /\ UNCHANGED playerVars

\* coordinator.async_get_playlist_tracks / async_get_album_tracks is called
DetailCall(kind) ==
    /\ JobBegin(<<"detail", kind, MediaId>>, "parent")
    /\ UNCHANGED playerVars

\* TidalMediaPlayer.async_play_media(media_type, media_id) up to its first
\* suspension; a media type other than track, playlist and album matches no
\* branch and fetches nothing
PlayMedia(media_type) ==
    IF media_type \in {"track", "playlist", "album"}
    THEN /\ JobBegin(<<"play", media_type, MediaId>>, "own")
         /\ UNCHANGED playerVars
    ELSE /\ job_phase = "idle"
         /\ pc[Caller] = "idle"
         /\ job_repeat' = (job = <<"play", media_type, MediaId>>)
         /\ job' = <<"play", media_type, MediaId>>
         /\ job_ids' = <<>>
         /\ job_got' = <<>>
         /\ job_return' = <<"return", PyNone>>
         /\ reqlog' = <<>>
         /\ UNCHANGED <<job_phase, playerVars, now, apiVars, srvVars, taskVars, stale401,
                        coordVars>>

\* the token call made for a request of the running call is answered with a
\* token: _request builds the headers and sends
JobGrantOk(expires_in, withRefresh) ==
    /\ job_phase # "idle"
    /\ GrantOk(Caller, expires_in, withRefresh)
    /\ reqlog' = Append(reqlog,
                        OnWire(JobRequest(job, job_phase, job_ids, job_got), access_token'))
    /\ UNCHANGED <<job, job_repeat, job_phase, job_ids, job_got, job_return, playerVars>>

\* a fetch of the running call raised exc: a detail fetcher converts it, a
\* client method lets it pass, async_play_media logs it in "except Exception"
JobRaised(exc) ==
    /\ job_phase' = "idle"
    /\ job_return' = IF job[1] = "play" THEN <<"return", PyNone>>
                     ELSE IF job[1] = "detail" THEN <<"raise", DetailRaise(exc)>>
                     ELSE <<"raise", exc>>
    /\ UNCHANGED <<job, job_repeat, job_ids, job_got, reqlog, playerVars>>

\* that token call fails
JobGrantFail(kind) ==
    /\ job_phase # "idle"
    /\ GrantFail(Caller, kind)
    /\ JobRaised(GrantRaise(kind))

\* the data request of the running call fails
JobDataFail(kind) ==
    /\ job_phase # "idle"
    /\ DataFail(Caller, kind)
    /\ JobRaised(RequestRaise(kind))

\* the running call goes on with its next fetch, up to the next suspension
JobContinue(ph, ids, got) ==
    /\ job_phase' = ph
    /\ job_ids' = ids
    /\ job_got' = got
    /\ StartRequest(Caller)
    /\ reqlog' = IF pc'[Caller] = "data"
                 THEN Append(reqlog, OnWire(JobRequest(job, ph, ids, got), access_token))
                 ELSE reqlog
    /\ result' = "ok"
    /\ cause' = <<"data", "ok">>
    /\ message' = <<>>
    /\ UNCHANGED <<now, apiVars, issued, stale401, coordVars, job_return>>

\* the running call returns val
JobReturn(val) ==
    /\ job_phase' = "idle"
    /\ job_return' = <<"return", val>>
    /\ DataOk(Caller)
    /\ UNCHANGED reqlog

\* async_play_media, playlist or album: the fetched object is stored, then
\* the detail fetcher is called
PlayOwnFetched(v) ==
    /\ IF job[2] = "playlist"
       THEN current_playlist' = v /\ UNCHANGED current_album
       ELSE current_album' = v /\ UNCHANGED current_playlist
    /\ UNCHANGED <<player_state, current_track>>
    /\ JobContinue("parent", <<>>, <<>>)

\* a detail fetcher that returns the tracks last fetched first
TracksDoneReversed(fetched_tracks) ==
    LET n == Len(fetched_tracks)
        rev == [i \in 1..n |-> fetched_tracks[n + 1 - i]]
    IN  IF job[1] = "detail"
        THEN /\ JobReturn(List(rev))
             /\ UNCHANGED playerVars
        ELSE /\ current_track' = IF rev # <<>> THEN rev[1] ELSE current_track
             /\ player_state' = "playing"
             /\ UNCHANGED <<current_playlist, current_album>>
             /\ JobReturn(PyNone)

\* the detail fetcher returns fetched_tracks: to its caller, or to
\* async_play_media, which takes the first track if there is one and plays
TracksDone(fetched_tracks) ==
    IF job[1] = "detail"
    THEN /\ JobReturn(List(fetched_tracks))
         /\ UNCHANGED playerVars
    ELSE /\ current_track' = IF fetched_tracks # <<>> THEN fetched_tracks[1]
                                                     ELSE current_track
         /\ player_state' = "playing"
         /\ UNCHANGED <<current_playlist, current_album>>
         /\ JobReturn(PyNone)

\* the data request of the running call is answered 2xx with a JSON body
JobDataOk(body) ==
    /\ job_phase # "idle"
    /\ pc[Caller] = "data"
    /\ LET m == JobMethod(job, job_phase, job_ids, job_got)
           v == ReturnOf(m[1], body)
       IN  /\ body \in BodiesFor(m[1], m[2])
           /\ CASE job_phase = "own" /\ job[1] = "read" ->
                     /\ JobReturn(v)
                     /\ UNCHANGED <<job_ids, job_got, playerVars>>
                [] job_phase = "own" /\ job[1] = "play" /\ job[2] = "track" ->
                     /\ current_track' = v
                     /\ player_state' = "playing"
                     /\ JobReturn(PyNone)
                     /\ UNCHANGED <<job_ids, job_got, current_playlist, current_album>>
                [] job_phase = "own" /\ job[1] = "play" /\ job[2] # "track" ->
                     PlayOwnFetched(v)
                [] job_phase = "parent" ->
                     IF HasTracks(v) /\ TrackIdsOf(v) # <<>>
                     THEN /\ JobContinue("track", TrackIdsOf(v), <<>>)
                          /\ UNCHANGED playerVars
                     ELSE /\ TracksDone(<<>>)
                          /\ UNCHANGED <<job_ids, job_got>>
                [] job_phase = "track" ->
                     IF Len(job_got) + 1 < Len(job_ids)
                     THEN /\ JobContinue("track", job_ids, Append(job_got, v))
                          /\ UNCHANGED playerVars
                     ELSE /\ TracksDone(Append(job_got, v))
                          /\ job_got' = Append(job_got, v)
                          /\ UNCHANGED job_ids
    /\ UNCHANGED <<job, job_repeat>>

\* async_media_stop
MediaStop ==
    /\ player_state' = "idle"
    /\ current_track' = PyNone
    /\ current_playlist' = PyNone
    /\ current_album' = PyNone
    /\ UNCHANGED <<now, apiVars, srvVars, taskVars, stale401, coordVars, jobVars>>

\* async_media_pause
MediaPause ==
    /\ player_state' = "paused"
    /\ UNCHANGED <<current_track, current_playlist, current_album>>
    /\ UNCHANGED <<now, apiVars, srvVars, taskVars, stale401, coordVars, jobVars>>

\* what a call of a read method, a detail fetcher or the player leaves alone
otherVars == <<up, flowVars, implVars, svcVars, setupVars>>

\* _request and the read methods, with every outcome of every exchange
NextWire ==
    \/ \E name \in CollectionMethods \cup ResourceMethods \cup {"_request"} :
          \E arg \in ReadArgs(name) : ReadCall(name, arg) /\ UNCHANGED otherVars
    \/ \E e \in ExpiresInChoices : JobGrantOk(e, FALSE) /\ UNCHANGED otherVars
    \/ \E k \in GrantFailures : JobGrantFail(k) /\ UNCHANGED otherVars
    \/ \E b \in UNION {BodiesFor(name, MediaId) : name \in CollectionMethods \cup ResourceMethods} :
          JobDataOk(b) /\ UNCHANGED otherVars
    \/ \E k \in DataFailures : JobDataFail(k) /\ UNCHANGED otherVars

SpecWire == Init /\ [][NextWire]_vars

\* the failures of an exchange told apart by the callers of the client: one
\* the client raises as TidalAuthError, one as TidalConnectionError, one it
\* does not catch
FailureClasses == {"status401", "reset", "timeout"}

\* the read methods of the client, called while the coordinator polls
NextRead ==
    \/ \E name \in CollectionMethods \cup ResourceMethods :
          \E arg \in ReadArgs(name) : ReadCall(name, arg) /\ UNCHANGED otherVars
    \/ JobGrantOk(Absent, FALSE) /\ UNCHANGED otherVars
    \/ \E b \in UNION {BodiesFor(name, MediaId) : name \in CollectionMethods \cup ResourceMethods} :
          JobDataOk(b) /\ UNCHANGED otherVars
    \/ JobDataFail("status401") /\ UNCHANGED otherVars
    \/ PollStart /\ UNCHANGED extVars
    \/ GrantOk(Poller, Absent, FALSE) /\ UNCHANGED extVars
    \/ DataOk(Poller) /\ UNCHANGED extVars
    \/ DataFail(Poller, "status401") /\ UNCHANGED extVars

SpecRead == Init /\ [][NextRead]_vars

\* the detail fetchers of the coordinator
NextDetail ==
    \/ \E kind \in {"playlist", "album"} : DetailCall(kind) /\ UNCHANGED otherVars
    \/ \E e \in ExpiresInChoices : JobGrantOk(e, FALSE) /\ UNCHANGED otherVars
    \/ \E k \in FailureClasses : JobGrantFail(k) /\ UNCHANGED otherVars
    \/ \E b \in BodiesFor("get_playlist", MediaId)
                  \cup UNION {BodiesFor("get_track", t) : t \in TrackIds} :
          JobDataOk(b) /\ UNCHANGED otherVars
    \/ \E k \in FailureClasses : JobDataFail(k) /\ UNCHANGED otherVars

SpecDetail == Init /\ [][NextDetail]_vars

\* the bodies the media player is answered with: an object without or with
\* a tracks relationship of one or two tracks, a track, or no data at all
PlayerBodies ==
    {NoDataBody, [data |-> Resource(MediaId)],
     [data |-> [id |-> MediaId, relationships |->
                   [tracks |-> [data |-> List(<<Resource("t1")>>)]]]],
     [data |-> [id |-> MediaId, relationships |->
                   [tracks |-> [data |-> List(<<Resource("t2"), Resource("t1")>>)]]]],
     [data |-> Resource("t1")], [data |-> Resource("t2")]}

\* the media player
NextPlayer ==
    \/ \E t \in {"track", "playlist", "album", "artist"} : PlayMedia(t) /\ UNCHANGED otherVars
    \/ JobGrantOk(Absent, FALSE) /\ UNCHANGED otherVars
    \/ JobGrantFail("status401") /\ UNCHANGED otherVars
    \/ \E b \in PlayerBodies :
          /\ job_phase = "own" => b \in {NoDataBody, [data |-> Resource(MediaId)]}
          /\ JobDataOk(b)
          /\ UNCHANGED otherVars
    \/ \E k \in {"status401", "timeout"} : JobDataFail(k) /\ UNCHANGED otherVars
    \/ MediaStop /\ UNCHANGED otherVars
    \/ MediaPause /\ UNCHANGED otherVars

SpecPlayer == Init /\ [][NextPlayer]_vars

(***************************************************************************)
(* Steps of a task, as seen from outside                                   *)
(***************************************************************************)
\* task p enters _request in this step
Starts(p) ==
    /\ op'[p] = "request"
    /\ \/ pc[p] = "idle" /\ pc'[p] # "idle"
       \/ p = Poller /\ pollStep > 0 /\ pollStep' > pollStep

\* task p puts a data request on the wire in this step
Sends(p) ==
    /\ pc'[p] = "data"
    /\ pc[p] # "data" \/ (p = Poller /\ pollStep' > pollStep)

\* the token call of task p is answered with a token in this step
Granted(p) == pc[p] = "grant" /\ pc'[p] # "grant" /\ issued' = issued + 1

\* the token call of task p fails in this step
GrantRaises(p) == pc[p] = "grant" /\ pc'[p] = "idle" /\ cause'[1] = "grant" /\ cause'[2] # "ok"

\* the data request of task p fails in this step
DataRaises(p) == pc[p] = "data" /\ pc'[p] = "idle" /\ cause'[1] = "data" /\ cause'[2] # "ok"

(***************************************************************************)
(* C1: a data request goes out only in a step in which _ensure_token_valid *)
(* has returned, with an access token held whose recorded expiry is later  *)
(* than the current time, and it carries that token; when the grant of     *)
(* _ensure_token_valid raises, the operation sends no data request.        *)
(***************************************************************************)
C1_SendOnlyWithLiveToken ==
    [][\A p \in Procs :
        /\ Sends(p) =>
              /\ Granted(p) \/ (Starts(p) /\ EnsureBranch = "none")
              /\ access_token' # None
              /\ token_expires' # NoTime
              /\ token_expires' > now'
              /\ sentToken'[p] = access_token'
        /\ GrantRaises(p) => nSends[p] = 0 /\ ~Sends(p)
      ]_vars

\* a data request is in flight that was sent right after a successful grant
C1_Witness ==
    \E p \in Procs : pc[p] = "data" /\ nGrants[p] = 1 /\ sentToken[p] = access_token

(***************************************************************************)
(* C2, as stated: when _ensure_token_valid runs with a held token whose    *)
(* expiry is within 5 minutes of now (boundary included) it makes exactly  *)
(* one token call, a refresh-token grant if a refresh token is held and a  *)
(* client-credentials grant otherwise, and on success the recorded expiry  *)
(* is later than the one the call found and later than now.               *)
(***************************************************************************)
C2_Original ==
    [][\A p \in Procs :
        /\ (Starts(p) /\ ~NoTokenHeld /\ now >= token_expires - RefreshMargin) =>
              /\ pc'[p] = "grant"
              /\ posted' = posted + 1
              /\ nGrants'[p] = 1
              /\ grantKind'[p] = IF refresh_token # None THEN "refresh_token"
                                                          ELSE "client_credentials"
        /\ nGrants'[p] <= 1
        /\ (Granted(p) /\ op[p] = "request" /\ seenExpiry[p] # NoTime) =>
              /\ token_expires' > seenExpiry[p]
              /\ token_expires' > now'
      ]_vars

(***************************************************************************)
(* C2, amended: the same, except that on success the recorded expiry is    *)
(* the time of the response plus the granted lifetime: it is later than    *)
(* now, and later than the expiry the call found whenever the granted      *)
(* lifetime is longer than 5 minutes.                                      *)
(***************************************************************************)
C2_RefreshWhenExpiring ==
    [][\A p \in Procs :
        /\ (Starts(p) /\ ~NoTokenHeld /\ now >= token_expires - RefreshMargin) =>
              /\ pc'[p] = "grant"
              /\ posted' = posted + 1
              /\ nGrants'[p] = 1
              /\ grantKind'[p] = IF refresh_token # None THEN "refresh_token"
                                                          ELSE "client_credentials"
        /\ nGrants'[p] <= 1
        /\ (Granted(p) /\ op[p] = "request" /\ seenExpiry[p] # NoTime) =>
              /\ token_expires' > now'
              /\ (token_expires' - now' > RefreshMargin) => token_expires' > seenExpiry[p]
      ]_vars

\* a refresh-token grant is in flight for a token that is exactly 5 minutes from expiry
C2_Witness ==
    \E p \in Procs :
        /\ pc[p] = "grant" /\ grantKind[p] = "refresh_token" /\ op[p] = "request"
        /\ access_token # None /\ now = token_expires - RefreshMargin

(***************************************************************************)
(* C3: when _ensure_token_valid runs while no access token is held it      *)
(* makes exactly one client-credentials call and no refresh-token grant,   *)
(* and when it returns an access token and an expiry are held.             *)
(***************************************************************************)
C3_AcquireWhenNoToken ==
    [][\A p \in Procs :
        /\ (Starts(p) /\ access_token = None) =>
              /\ pc'[p] = "grant"
              /\ grantKind'[p] = "client_credentials"
              /\ posted' = posted + 1
              /\ nGrants'[p] = 1
        /\ nGrants'[p] <= 1
        /\ (Granted(p) /\ op[p] = "request") =>
              /\ access_token' # None
              /\ token_expires' # NoTime
              /\ pc'[p] = "data"
              /\ posted' = posted
      ]_vars

\* the first token was just acquired by a request: it is held and the request is sent
C3_Witness ==
    \E p \in Procs :
        /\ pc[p] = "data" /\ nGrants[p] = 1 /\ issued = 1 /\ posted = 1
        /\ access_token = 2 /\ token_expires # NoTime

(***************************************************************************)
(* C4: a call of _ensure_token_valid while the held token expires more     *)
(* than 5 minutes from now, in particular a second call in succession,     *)
(* makes no token call and leaves access token, refresh token and expiry   *)
(* unchanged.                                                              *)
(***************************************************************************)
C4_EnsureIdempotent ==
    [][\A p \in Procs :
        (Starts(p) /\ access_token # None /\ token_expires # NoTime
            /\ now < token_expires - RefreshMargin) =>
              /\ posted' = posted
              /\ nGrants'[p] = 0
              /\ pc'[p] = "data"
              /\ UNCHANGED <<access_token, refresh_token, token_expires>>
      ]_vars

\* a request has completed and the next one is in flight without any token call
C4_Witness ==
    /\ result = "ok" /\ cause = <<"data", "ok">>
    /\ \E p \in Procs : pc[p] = "data" /\ nGrants[p] = 0 /\ sentToken[p] = access_token

(***************************************************************************)
(* C5, as stated: from any client method an HTTP 401 raises                *)
(* TidalAuthError, an HTTP 500 or a connection reset raises                *)
(* TidalConnectionError, and no exception of another type leaves the       *)
(* client, whatever fails, the token grant made for the request included.  *)
(***************************************************************************)
C5_Claim ==
    /\ cause = <<"data", "status401">> => result = "TidalAuthError"
    /\ cause \in {<<"data", "status500">>, <<"data", "reset">>} => result = "TidalConnectionError"
    /\ result \in {"none", "ok", "TidalAuthError", "TidalConnectionError"}

(***************************************************************************)
(* C6, as stated: a grant that fails on invalid credentials raises         *)
(* TidalAuthError, one that fails on a transport failure (timeout,         *)
(* connection reset) raises TidalConnectionError, a grant rejected with    *)
(* HTTP 500 is not reported as an authentication failure, and a grant      *)
(* raises nothing else.                                                    *)
(***************************************************************************)
C6_Claim ==
    cause[1] = "grant" =>
        /\ cause[2] = "status401" => result = "TidalAuthError"
        /\ cause[2] \in {"reset", "timeout"} => result = "TidalConnectionError"
        /\ cause[2] = "status500" => result # "TidalAuthError"
        /\ result \in {"ok", "TidalAuthError", "TidalConnectionError"}

(***************************************************************************)
(* C7: the client never retries.  One invocation of _request sends its     *)
(* data request at most once and makes at most one token call; when the    *)
(* data request fails, with a 401 or otherwise, the invocation raises to   *)
(* its caller in that step, without a token call, without a change of the  *)
(* token fields and without sending again.                                 *)
(***************************************************************************)
C7_NoRetry ==
    [][\A p \in Procs :
        /\ nSends'[p] <= 1
        /\ nGrants'[p] <= 1
        /\ DataRaises(p) =>
              /\ posted' = posted
              /\ UNCHANGED <<access_token, refresh_token, token_expires>>
              /\ result' \notin {"none", "ok"}
        /\ (pc[p] = "data" /\ pc'[p] # "data") =>
              \/ pc'[p] = "idle"
              \/ p = Poller /\ pollStep' > pollStep
      ]_vars

\* a 401 was raised to the caller and the token endpoint was never called
C7_Witness ==
    /\ result = "TidalAuthError" /\ cause = <<"data", "status401">>
    /\ posted = 0
    /\ \A p \in Procs : pc[p] = "idle"

(***************************************************************************)
(* C8, as stated: the token is refreshed reactively on a 401.  Once a data *)
(* request was answered 401, no data request goes out before a token was   *)
(* granted (by refresh, or by acquisition without a refresh token).        *)
(***************************************************************************)
C8_Original ==
    [][\A p \in Procs : Sends(p) => ~stale401']_vars

(***************************************************************************)
(* C8, amended: there is no reactive refresh.  A data request answered 401 *)
(* raises TidalAuthError, makes no token call and leaves the token fields  *)
(* as they are; the next request is preceded by a grant only when the held *)
(* token is absent or within 5 minutes of its recorded expiry, and         *)
(* otherwise goes out at once with the same bearer token.                  *)
(***************************************************************************)
C8_NoReactiveRefresh ==
    [][\A p \in Procs :
        /\ (DataRaises(p) /\ cause'[2] = "status401") =>
              /\ result' = "TidalAuthError"
              /\ posted' = posted
              /\ UNCHANGED <<access_token, refresh_token, token_expires>>
        /\ (Starts(p) /\ stale401) =>
              IF access_token # None /\ token_expires # NoTime
                    /\ now < token_expires - RefreshMargin
              THEN /\ pc'[p] = "data"
                   /\ sentToken'[p] = access_token
                   /\ posted' = posted
                   /\ stale401'
              ELSE pc'[p] = "grant" /\ posted' = posted + 1
      ]_vars

\* after a 401, the next data request is in flight with the token held then
C8_Witness ==
    /\ stale401
    /\ \E p \in Procs : pc[p] = "data" /\ nGrants[p] = 0 /\ sentToken[p] = access_token

(***************************************************************************)
(* C9: a poll replaces the snapshot only when all four fetches succeeded,  *)
(* and then by the four results of that poll; a poll that fails on any     *)
(* fetch leaves the held snapshot as it was, in all four fields, and the   *)
(* failure is surfaced to the host.                                        *)
(***************************************************************************)
C9_PollAtomic ==
    [][/\ data' # data =>
              /\ pollStep = 4 /\ pollStep' = 0
              /\ pc[Poller] = "data"
              /\ data' = <<[playlists |-> pollId, albums |-> pollId,
                            tracks |-> pollId, artists |-> pollId]>>
              /\ last_update_success'
       /\ (pollStep > 0 /\ pollStep' = 0 /\ result' # "ok") =>
              /\ data' = data
              /\ result' # "CancelledError" =>
                    /\ ~last_update_success'
                    /\ last_exception' \in {"Authentication error", "Connection error",
                                            "Unexpected error"}
      ]_vars

\* the second poll failed on a fetch and the snapshot of the first poll is still held
C9_Witness ==
    /\ pollId = 2 /\ pollStep = 0
    /\ ~last_update_success
    /\ data = <<[playlists |-> 1, albums |-> 1, tracks |-> 1, artists |-> 1]>>
    /\ cause[1] = "data" /\ cause[2] # "ok"

(***************************************************************************)
(* C10: whatever a poll interleaves with, and also when it is cancelled,   *)
(* the four accessors return, in every state, the four results of one and  *)
(* the same poll (or nothing at all): never fields of two polls.           *)
(***************************************************************************)
C10_SnapshotWhole ==
    /\ playlists = albums
    /\ albums = tracks
    /\ tracks = artists

\* the second poll has three of its results while another task's request is
\* in flight, and the accessors still return the first poll's snapshot
C10_Witness ==
    /\ pollId = 2 /\ pollStep = 4
    /\ pc[Caller] = "data"
    /\ playlists = 1 /\ artists = 1

(***************************************************************************)
(* C11: token refresh is not mutex-guarded.  Two requests that both find   *)
(* the token expiring both post a refresh grant; each grant that succeeds  *)
(* stores its own access token and expiry, so the credentials hold those   *)
(* of the response that completed last; the grant of one task ends or      *)
(* disturbs no other task's invocation; and every data request sent after  *)
(* a grant carries a token the token endpoint returned.                    *)
(***************************************************************************)
C11_DuplicateRefreshTolerated ==
    /\ [](\A p \in Procs :
            (pc[p] = "data" /\ nGrants[p] = 1) => sentToken[p] \in 2..(issued + 1))
    /\ [][\A p \in Procs :
            (Granted(p) /\ op[p] = "request") =>
                /\ access_token' = issued' + 1
                /\ token_expires' \in {now + DefaultExpiresIn} \cup
                                      {now + e : e \in ExpiresInChoices \ {Absent}}
                /\ Sends(p)
                /\ sentToken'[p] = access_token'
                /\ result' = result /\ cause' = cause
                /\ \A q \in Procs \ {p} :
                      /\ pc'[q] = pc[q]
                      /\ sentToken'[q] = sentToken[q]
                      /\ nSends'[q] = nSends[q]
      ]_vars

\* both tasks found the token expiring, both refresh grants were answered, both
\* data requests are in flight and the credentials hold the later token
C11_Witness ==
    /\ pc[Caller] = "data" /\ pc[Other] = "data"
    /\ grantKind[Caller] = "refresh_token" /\ grantKind[Other] = "refresh_token"
    /\ nGrants[Caller] = 1 /\ nGrants[Other] = 1
    /\ sentToken[Caller] # sentToken[Other]
    /\ access_token = issued + 1
    /\ access_token \in {sentToken[Caller], sentToken[Other]}

(***************************************************************************)
(* C12, as stated: when a fetch of a poll raises TidalAuthError, what      *)
(* leaves _async_update_data is an authentication-failure signal, of       *)
(* another type than the signal of a connection failure: the one on which  *)
(* the host starts re-authentication (ConfigEntryAuthFailed) instead of    *)
(* polling again on the next interval.                                     *)
(***************************************************************************)
C12_Claim ==
    last_exception = "Authentication error" =>
        /\ signal # PollSignal("TidalConnectionError")
        /\ signal = "ConfigEntryAuthFailed"

(***************************************************************************)
(* C13: a poll that ends because a fetch raised (TidalAuthError,           *)
(* TidalConnectionError or anything else) leaves _async_update_data as     *)
(* UpdateFailed and as nothing else, with the prefix of the matching       *)
(* except clause and the message of the original exception; the refresh    *)
(* task is idle afterwards, so the next interval polls again.              *)
(***************************************************************************)
C13_PollFailureConverted ==
    [][(pollStep > 0 /\ pollStep' = 0 /\ result' \notin {"ok", "CancelledError"}) =>
            /\ signal' = "UpdateFailed"
            /\ last_exception' =
                  (CASE result' = "TidalAuthError" -> "Authentication error"
                     [] result' = "TidalConnectionError" -> "Connection error"
                     [] OTHER -> "Unexpected error")
            /\ message' # <<>>
            /\ last_message' = message'
            /\ pc'[Poller] = "idle"
            /\ ~last_update_success'
      ]_vars

\* a fetch of a poll raised an exception the client does not map, and the poll
\* ended with UpdateFailed("Unexpected error: ...")
C13_Witness ==
    /\ pollStep = 0 /\ pollId > 0
    /\ result \in {"KeyError", "TimeoutError"}
    /\ signal = "UpdateFailed"
    /\ last_exception = "Unexpected error"
    /\ last_message = message /\ message # <<>>

(***************************************************************************)
(* C14: connection failures self-heal.  Whatever number of polls failed    *)
(* before, a poll whose four fetches all succeed leaves the coordinator    *)
(* Fresh, holding the four results of that poll and no error; and once the *)
(* API is reachable, fair polling leads to Fresh (as long as the polls and *)
(* token calls the model allows are not used up).                          *)
(***************************************************************************)
C14_SelfHeal ==
    /\ [][(pollStep = 4 /\ pollStep' = 0 /\ result' = "ok") =>
              /\ Fresh'
              /\ data' = <<Snapshot([i \in 1..4 |-> pollId])>>
              /\ last_exception' = "none" /\ signal' = "none"
        ]_vars
    /\ (up ~> (Fresh \/ posted = MaxGrants \/ (pollId = MaxPolls /\ pollStep = 0)))

\* after a failed poll the API is reachable again and the last fetch of the
\* next poll is in flight: its answer puts the coordinator back in Fresh
C14_Witness ==
    /\ up /\ Failed
    /\ signal = "UpdateFailed" /\ last_exception = "Connection error"
    /\ pollStep = 4 /\ pc[Poller] = "data"

(***************************************************************************)
(* C15: for every verifier and challenge the integration generates, in the *)
(* config flow and in the OAuth2 implementation, the challenge sent is     *)
(* base64url(SHA-256(verifier)) without padding, it is sent with           *)
(* code_challenge_method=S256, and the verifier has 43 to 128 characters.  *)
(***************************************************************************)
C15_PkcePair ==
    /\ auth_url # NoUrl =>
          /\ auth_url.code_challenge = <<"b64url", <<"sha256", code_verifier>>, 0>>
          /\ auth_url.code_challenge_method = "S256"
          /\ StrLen(code_verifier) >= MinVerifier /\ StrLen(code_verifier) <= MaxVerifier
          /\ code_verifier[3] = 0
    /\ impl_authorize # NoUrl =>
          /\ impl_authorize.code_challenge = <<"b64url", <<"sha256", impl_code_verifier>>, 0>>
          /\ impl_authorize.code_challenge_method = "S256"
          /\ StrLen(impl_code_verifier) >= MinVerifier
          /\ StrLen(impl_code_verifier) <= MaxVerifier

\* both generators have sent a challenge
C15_Witness ==
    /\ auth_url # NoUrl /\ impl_authorize # NoUrl
    /\ flow_step = "authorize"
    /\ StrLen(code_verifier) = 43 /\ StrLen(auth_url.code_challenge) = 43

(***************************************************************************)
(* C16: in every authorization flow, a flow started for re-authentication  *)
(* included, the code_verifier of the token exchange is the verifier from  *)
(* which the code_challenge of the flow's most recent redirect was made.   *)
(***************************************************************************)
C16_VerifierRoundTrip ==
    [][/\ (token_post' # token_post /\ token_post' # NoPost) =>
              /\ auth_url # NoUrl
              /\ auth_url.code_challenge = CodeChallenge(token_post'.code_verifier)
       /\ (impl_token_request' # impl_token_request) =>
              /\ impl_authorize # NoUrl
              /\ impl_authorize.code_challenge = CodeChallenge(impl_token_request')
      ]_vars

\* a re-authentication flow has posted its token exchange
C16_Witness ==
    /\ flow_source = "reauth" /\ flow_step = "exchange"
    /\ token_post # NoPost /\ token_post.code_verifier = code_verifier
    /\ impl_token_request # NoStr

(***************************************************************************)
(* C17, as stated: the client has a current-user operation, and an         *)
(* authorize step whose callback carried the matching state and a code,    *)
(* whose token exchange succeeded and whose client authenticated goes on   *)
(* to ask for the user and ends by creating the config entry: it does not  *)
(* end in an abort without the user ever having been asked for.            *)
(***************************************************************************)
C17_Claim ==
    (flow_step = "done" /\ flow_tokens # NoTokens /\ result = "ok") =>
        /\ "get_current_user" \in ApiMethods
        /\ flow_result[1] = "create_entry"

(***************************************************************************)
(* C18: a successful add_to_playlist call with N track ids has put exactly *)
(* one request on the wire, a POST whose body lists the N ids as           *)
(* {type: tracks, id} in the given order, and has then asked for exactly   *)
(* one coordinator refresh; and every mutating service asks for the        *)
(* refresh only in the step in which the last request of its mutation has  *)
(* been answered, never while a request is outstanding or after a failure. *)
(***************************************************************************)
C18_MutateThenRefresh ==
    /\ [](  (svc_state = "done" /\ svc_name = "add_to_playlist") =>
              /\ Len(wire) = 1
              /\ wire[1][1] = "POST"
              /\ wire[1][2] = <<"playlists", PlaylistId, "tracks">>
              /\ Len(wire[1][3].data) = Len(svc_ids)
              /\ \A i \in 1..Len(svc_ids) :
                    wire[1][3].data[i] = [type |-> "tracks", id |-> svc_ids[i]]
              /\ refreshes = 1)
    /\ [](refreshes <= 1 /\ (svc_state # "done" => refreshes = 0))
    /\ [][refreshes' > refreshes =>
              /\ svc_state' = "done"
              /\ pc'[Caller] = "idle"
              /\ svc_name' = "remove_from_playlist" => Len(wire') = Len(svc_ids')
              /\ svc_name' # "remove_from_playlist" => Len(wire') = 1
              /\ (wire' # <<>>) => (pc[Caller] = "data" /\ result' = "ok")
        ]_vars

\* add_to_playlist("p1", ["t1", "t2"]) has returned
C18_Witness ==
    /\ svc_state = "done" /\ svc_name = "add_to_playlist"
    /\ svc_ids = <<"t1", "t2">>
    /\ Len(wire) = 1 /\ refreshes = 1

(***************************************************************************)
(* C19: a removal over a list of k ids that succeeds has issued exactly k  *)
(* DELETE requests, one per id and in list order; an addition over k ids   *)
(* has issued exactly one POST that carries all k ids.                     *)
(***************************************************************************)
C19_RemovePerIdAddBatched ==
    /\ (svc_state = "done" /\ svc_name \in {"remove_from_playlist", "unlike_track"}) =>
          /\ Len(wire) = Len(svc_ids)
          /\ \A i \in 1..Len(svc_ids) :
                /\ wire[i][1] = "DELETE"
                /\ wire[i][2][Len(wire[i][2])] = svc_ids[i]
                /\ wire[i][3] = NoBody
    /\ (svc_state = "done" /\ svc_name = "add_to_playlist") =>
          /\ Len(wire) = 1
          /\ wire[1][1] = "POST"
          /\ [i \in 1..Len(wire[1][3].data) |-> wire[1][3].data[i].id] = svc_ids

\* remove_from_playlist("p1", ["t2", "t1"]) has returned
C19_Witness ==
    /\ svc_state = "done" /\ svc_name = "remove_from_playlist"
    /\ svc_ids = <<"t2", "t1">>
    /\ Len(wire) = 2

(***************************************************************************)
(* C20, as stated: a setup that ends on an authentication failure (no      *)
(* access token in the entry, TidalAuthError from authenticate, or an      *)
(* authentication error of the first refresh) raises ConfigEntryAuthFailed *)
(* and one that ends on a connection failure raises ConfigEntryNotReady;   *)
(* in both cases no coordinator is stored and no platform, service or LLM  *)
(* tool is set up.                                                         *)
(***************************************************************************)
C20_Claim ==
    (setup_step = "done" /\ setup_cause # "complete") =>
        /\ loaded = {}
        /\ setup_cause = "no_token" => setup_raised = "ConfigEntryAuthFailed"
        /\ (setup_cause # "no_token" /\ result = "TidalAuthError") =>
              setup_raised = "ConfigEntryAuthFailed"
        /\ (setup_cause # "no_token" /\ result = "TidalConnectionError") =>
              setup_raised = "ConfigEntryNotReady"

C26_Claim ==
    /\ setup_step # "authenticating"
    /\ setup_step = "authenticated" => access_token = EntryAccess

(***************************************************************************)
(* C27: remove_from_playlist stops at the first DELETE that fails: the     *)
(* requests it has made are the DELETEs of the ids up to the failing one,  *)
(* in order, and nothing else (no later id, no request undoing an earlier  *)
(* deletion); the error reaches the handler, which requests no refresh,    *)
(* and nothing more is sent for the call afterwards.                       *)
(***************************************************************************)
C27_RemoveStopsAtFirstFailure ==
    /\ [][(/\ svc_name = "remove_from_playlist" /\ svc_state = "running"
            /\ pc[Caller] = "data" /\ cause'[1] = "data" /\ cause'[2] \in DataFailures) =>
            /\ result' \in {"TidalAuthError", "TidalConnectionError", "TimeoutError"}
            /\ svc_state' = "error"
            /\ pc'[Caller] = "idle"
            /\ refreshes' = 0
            /\ wire' = [i \in 1..(svc_idx + 1) |->
                           <<"DELETE", <<"playlists", PlaylistId, "tracks", svc_ids[i]>>, NoBody>>]
          ]_vars
    /\ [][(svc_name = "remove_from_playlist" /\ svc_state = "error" /\ svc_state' = "error") =>
            UNCHANGED <<wire, refreshes, svc_idx>>]_vars

\* the second of three DELETEs has failed: one track is gone, one id was
\* never requested and no refresh was asked for
C27_Witness ==
    /\ svc_name = "remove_from_playlist" /\ svc_state = "error"
    /\ cause[1] = "data"
    /\ Len(svc_ids) = 3 /\ svc_idx = 1 /\ Len(wire) = 2
    /\ refreshes = 0

(***************************************************************************)
(* C28: when the client call of a mutating service raises, in a token      *)
(* grant or in a data request, the handler catches it: it requests no      *)
(* refresh, the snapshot of the coordinator stays as it was, and the       *)
(* handler ends in its except clause, without an exception for the service *)
(* caller.                                                                 *)
(***************************************************************************)
C28_FailedMutationIsSwallowed ==
    [][(svc_state = "running" /\ (DataRaises(Caller) \/ GrantRaises(Caller))) =>
          /\ svc_state' = "error"
          /\ refreshes' = 0
          /\ data' = data
          /\ UNCHANGED <<playlists, albums, tracks, artists>>
      ]_vars

\* a like_track whose request was refused has ended in the except clause
C28_Witness ==
    /\ svc_name = "like_track" /\ svc_state = "error"
    /\ result = "TidalAuthError" /\ cause[1] = "data"
    /\ refreshes = 0

(***************************************************************************)
(* C29: the authorize step sends the token exchange only for a callback    *)
(* whose state equals the state the user step of this flow generated and   *)
(* whose code is not empty, and then with that code; without callback      *)
(* data, with another state or without a code it aborts the flow, with     *)
(* missing_credentials, invalid_state and missing_code in that order of    *)
(* precedence, sends nothing to the token endpoint and creates no entry.   *)
(***************************************************************************)
C29_ExchangeOnlyForOwnState ==
    [][\A hasInput \in BOOLEAN, st \in StateNonces \cup {None}, code \in {None, 1} :
          FlowAuthorize(hasInput, st, code) =>
             IF hasInput /\ st = flow_state /\ code # None
             THEN /\ flow_state = auth_url.state
                  /\ flow_step' = "exchange"
                  /\ token_post' # NoPost /\ token_post'.code = code
             ELSE /\ flow_step' = "done"
                  /\ flow_result' = <<"abort", IF ~hasInput THEN "missing_credentials"
                                               ELSE IF st # flow_state THEN "invalid_state"
                                               ELSE "missing_code">>
                  /\ token_post' = NoPost
                  /\ posted' = posted
                  /\ flow_tokens' = NoTokens
      ]_vars

\* a flow was aborted for a callback with another state than its own, with
\* nothing sent to the token endpoint
C29_Witness ==
    /\ flow_result = <<"abort", "invalid_state">>
    /\ flow_state # None
    /\ token_post = NoPost

(***************************************************************************)
(* C21: every data request goes out with the header Authorization: Bearer  *)
(* <the access token held at that moment> and Content-Type:                *)
(* application/vnd.api+json and no other header of the client, and with a  *)
(* countryCode query parameter: the caller's when the caller passed one,   *)
(* the country code of the client otherwise; every other parameter of the  *)
(* caller is passed on as it is, and none is added.                        *)
(***************************************************************************)
C21_HeadersAndCountryCode ==
    [][Sends(Caller) =>
          LET sent == reqlog'[Len(reqlog')]
              own == MethodRequest(job'[2], job'[3]).params
          IN  /\ reqlog' # <<>>
              /\ access_token' # None
              /\ sentToken'[Caller] = access_token'
              /\ DOMAIN sent.headers = {"Authorization", "Content-Type"}
              /\ sent.headers["Authorization"] = <<"Bearer", access_token'>>
              /\ sent.headers["Content-Type"] = "application/vnd.api+json"
              /\ DOMAIN sent.params = DOMAIN own \cup {"countryCode"}
              /\ sent.params["countryCode"] =
                    IF "countryCode" \in DOMAIN own THEN own["countryCode"] ELSE CountryCode
              /\ \A k \in DOMAIN own : sent.params[k] = own[k]
      ]_vars

\* a request is in flight that was sent after a second grant, with the
\* caller's own country code and its other parameter
C21_Witness ==
    /\ pc[Caller] = "data"
    /\ issued = 2
    /\ reqlog # <<>>
    /\ reqlog[1].headers["Authorization"] = <<"Bearer", access_token>>
    /\ reqlog[1].params = [countryCode |-> "DE", include |-> "tracks"]

(***************************************************************************)
(* C22: a detail fetch requests the playlist or album once and then one    *)
(* track per id of the parent's tracks relationship, in the order of the   *)
(* relationship, and returns the tracks in that order; for a parent        *)
(* without a tracks relationship it returns the empty list after the one   *)
(* request for the parent; a repeated call sends all of its requests       *)
(* again.                                                                  *)
(***************************************************************************)
C22_DetailFetchInOrder ==
    /\ [](job[1] = "detail" =>
            /\ \A i \in 1..Len(reqlog) :
                  /\ reqlog[i].method = "GET"
                  /\ reqlog[i].endpoint =
                        IF i = 1
                        THEN <<IF job[2] = "playlist" THEN "playlists" ELSE "albums", job[3]>>
                        ELSE <<"tracks", job_ids[i - 1]>>
            /\ Len(reqlog) <= 1 + Len(job_ids)
            /\ job_return[1] = "return" =>
                  /\ Len(reqlog) = 1 + Len(job_ids)
                  /\ job_return[2] = List(job_got)
                  /\ Len(job_got) = Len(job_ids)
                  /\ \A i \in 1..Len(job_ids) :
                        job_got[i] \in {Resource(job_ids[i]), EmptyObject})
    /\ [][\A b \in BodiesFor("get_playlist", MediaId) :
            (job[1] = "detail" /\ job_phase = "parent" /\ JobDataOk(b)) =>
               IF /\ "data" \in DOMAIN b
                  /\ "relationships" \in DOMAIN b.data
                  /\ "tracks" \in DOMAIN b.data.relationships
               THEN LET rel == b.data.relationships.tracks
                        lst == IF "data" \in DOMAIN rel THEN rel.data.items ELSE <<>>
                    IN  /\ Len(job_ids') = Len(lst)
                        /\ \A i \in 1..Len(lst) : job_ids'[i] = lst[i].id
                        /\ lst = <<>> => job_return' = <<"return", EmptyList>>
               ELSE /\ job_return' = <<"return", EmptyList>>
                    /\ job_ids' = <<>>
                    /\ Len(reqlog') = 1
          ]_vars

\* a detail fetch of a parent with two tracks has returned, and so had the
\* same call before it
C22_Witness ==
    /\ job[1] = "detail" /\ job_repeat
    /\ job_return = <<"return", List(<<Resource("t2"), Resource("t1")>>)>>
    /\ job_ids = <<"t2", "t1">>
    /\ Len(reqlog) = 3

(***************************************************************************)
(* C23: a read method returns the data field of the JSON body, and when    *)
(* the body has none the empty list for the four collection methods and    *)
(* the empty object for the others; the accessors of the coordinator       *)
(* return nothing before the first successful poll, change only when a     *)
(* poll completes, and then return what the four fetches of that poll      *)
(* returned.                                                               *)
(***************************************************************************)
C23_ReadsAndAccessors ==
    /\ [][\A name \in CollectionMethods \cup ResourceMethods :
            \A b \in BodiesFor(name, MediaId) :
               (job[1] = "read" /\ job[2] = name /\ JobDataOk(b)) =>
                  job_return' = <<"return",
                                  IF "data" \in DOMAIN b THEN b.data
                                  ELSE IF name \in {"get_user_playlists", "get_user_albums",
                                                    "get_user_tracks", "get_user_artists"}
                                       THEN [items |-> <<>>]
                                       ELSE [k \in {} |-> k]>>
          ]_vars
    /\ [](data = NoData => <<playlists, albums, tracks, artists>> = <<Empty, Empty, Empty, Empty>>)
    /\ [][IF pollStep = 4 /\ pc[Poller] = "data" /\ pc'[Poller] = "idle" /\ last_update_success'
          THEN <<playlists, albums, tracks, artists>>' =
                  <<fetched[1], fetched[2], fetched[3], pollId>>
          ELSE UNCHANGED <<playlists, albums, tracks, artists>>
         ]_vars

\* get_track was answered without a data field and returned the empty
\* object, after a second poll had replaced the snapshot of the first
C23_Witness ==
    /\ job[1] = "read" /\ job[2] = "get_track"
    /\ job_return = <<"return", EmptyObject>>
    /\ playlists = 2 /\ artists = 2

(***************************************************************************)
(* C30: async_play_media is all-or-nothing: the player leaves the idle     *)
(* state and takes a current track, playlist or album only when every      *)
(* fetch of the call succeeded, and async_media_stop clears all of them;   *)
(* so whenever no call is running and the player is idle, it has no        *)
(* current track, playlist or album.                                       *)
(***************************************************************************)
C30_Claim ==
    (job_phase = "idle" /\ player_state = "idle") =>
        /\ current_track = PyNone
        /\ current_playlist = PyNone
        /\ current_album = PyNone

====
